---- MODULE Spec2Model ----
(***************************************************************************)
(* Session & observation state manager of claude-eyes                      *)
(* (SessionManager, src/session/manager.ts).                               *)
(*                                                                         *)
(* Specifications over the shared state:                                   *)
(*   SessionSpec       the browser/context/page lifecycle: ensureBrowser() *)
(*                     and close(), each split at its await points, with   *)
(*                     several overlapping tool calls;                     *)
(*   ConsoleSpec       console capture on a created session: the console   *)
(*                     listener, getConsoleLogs, clearConsoleLogs;         *)
(*   Spec              network capture on a created session: the request   *)
(*                     and response listeners (the response listener split *)
(*                     at its await of the body), clearNetworkRequests;    *)
(*   HistorySpec       both histories together, with their clears;         *)
(*   ConsoleQuerySpec  getConsoleLogs over bounded histories and filters,  *)
(*                     and what a caller does with the returned array;     *)
(*   NetworkQuerySpec  getNetworkRequests likewise;                        *)
(*   ArtifactSpec      the screenshot and DOM snapshot stores;             *)
(*   VisualSpec        visual_diff over stored screenshots;                *)
(*   DomStoreSpec      dom_diff over stored DOM snapshots;                 *)
(*   ToolSpec          tool operations from construction on: navigate      *)
(*                     (split at its await of ensureBrowser()), the reads  *)
(*                     that compile patterns, the page's events;           *)
(*   PageSpec          navigate, click and verify_element on a created     *)
(*                     session and the fixture page;                       *)
(*   VerifySpec        verify_request_succeeded over bounded histories;    *)
(*   LifecycleSpec     capture and stores across close() and a new         *)
(*                     ensureBrowser();                                    *)
(*   DispatchSpec      the tools/call request handler: lookup of the tool, *)
(*                     validation of the arguments, the handler's result.  *)
(***************************************************************************)
EXTENDS Integers, Sequences, FiniteSets, TLC

\* ---------------------------------------------------------------- bounds

\* Tool calls that may be inside ensureBrowser() at the same time.
MaxCallers == 2
\* Browser launches the engine is asked for in one behaviour.
MaxLaunch == 2
\* Requests the page sends in one behaviour.
MaxReq == 2
\* Console entries held between two clears.
MaxConsole == 2
\* Largest value of the wall clock.
MaxClock == 1
\* Store calls on the artifact store in one behaviour.
MaxStores == 3
\* Screenshots taken in one behaviour of the visual diff.
MaxShots == 2
\* DOM snapshots taken in one behaviour of the dom diff.
MaxSnaps == 2
\* Clicks a document receives before the next navigation.
MaxClicks == 2

\* ------------------------------------------------------------- constants

\* null, the value of an absent handle.
NoHandle == 0
\* ensureBrowser() outcomes that are not a returned value.
NoResult == -2
Threw == -1
\* No tool operation has returned yet; no document is modelled.
NoResponse ==
  [tool |-> "none", args |-> <<>>, raised |-> FALSE, content |-> <<>>,
   calls |-> <<>>]
NoDocument == <<>>
\* No tool operation is suspended.
NoCall == <<>>
\* Marks a suspended ensureBrowser() during which a close() step has run.
Overlapped == -3

Callers == 1..MaxCallers

VARIABLES
  \* SessionManager fields
  browser, context, page,
  consoleLogs, networkRequests,
  \* the automation engine: objects created and not yet closed, pages with
  \* listeners attached, the next object to create
  liveBrowsers, liveContexts, livePages, attached, nextChain,
  \* ensureBrowser() activations: position, the chain being created, outcome,
  \* and whether the awaited engine call was issued after the close call that
  \* is pending on the same chain
  epc, eown, eret, late,
  \* the close() activation: position and the object whose close is awaited
  cpc, ctarget,
  \* the page returned by the first ensureBrowser() to return a page since the
  \* last step of a close(), by a call no close() step overlapped; NoHandle if
  \* there is none
  firstPage,
  \* network entry objects by identity, requests whose response has not been
  \* delivered, response listeners suspended in safeGetBody, ids handed out
  heap, wire, listeners, nextReq,
  \* Date.now(), and the console messages the page emitted since the last clear
  now, emitted,
  \* the named artifact store: each Map as its <<name, payload>> pairs in
  \* insertion order, and the store calls made so far
  screenshots, domSnapshots, stored,
  \* the arrays a caller holds from its last getConsoleLogs and
  \* getNetworkRequests: references to the entry objects, in array order
  consoleRead, networkRead,
  \* the tool layer: what the last tool operation returned or raised, the
  \* page's document as the engine reports it, and the tool operation that is
  \* suspended in ensureBrowser()
  toolResult, dom, pending

sessionVars == <<browser, context, page>>
engineVars == <<liveBrowsers, liveContexts, livePages, attached, nextChain>>
callVars == <<epc, eown, eret, late, cpc, ctarget, firstPage>>
captureVars == <<consoleLogs, networkRequests, heap, wire, listeners, nextReq, now, emitted>>
artifactVars == <<screenshots, domSnapshots, stored>>
readVars == <<consoleRead, networkRead>>
toolVars == <<toolResult, dom, pending>>
vars == <<sessionVars, engineVars, callVars, captureVars, artifactVars, readVars,
          toolVars>>

\* ============================================================== lifecycle

\* ensureBrowser(), entry to the first await: `if (!this.browser)` starts the
\* launch; otherwise `return this.page!` at once.
ensureBrowserEntry(c) ==
  /\ epc[c] = "idle"
  /\ IF browser = NoHandle
       THEN /\ nextChain <= MaxLaunch
            /\ epc' = [epc EXCEPT ![c] = "launch"]
            /\ eown' = [eown EXCEPT ![c] = nextChain]
            /\ nextChain' = nextChain + 1
            /\ eret' = [eret EXCEPT ![c] = NoResult]
            /\ UNCHANGED firstPage
       ELSE /\ eret' = [eret EXCEPT ![c] = page]
            /\ firstPage' = IF firstPage = NoHandle THEN page ELSE firstPage
            /\ UNCHANGED <<epc, eown, nextChain>>
  /\ UNCHANGED <<sessionVars, liveBrowsers, liveContexts, livePages, attached,
                 late, cpc, ctarget, captureVars, artifactVars, readVars>>

\* ensureBrowser() called by a caller of the session manager.
ensureBrowserCall(c) == ensureBrowserEntry(c) /\ UNCHANGED toolVars

\* `this.browser = await chromium.launch(...)` resumes: the browser exists
\* and is stored, and newContext is called on it; or the launch rejects.
launchDone(c, ok) ==
  /\ epc[c] = "launch"
  /\ IF ok
       THEN /\ liveBrowsers' = liveBrowsers \cup {eown[c]}
            /\ browser' = eown[c]
            /\ epc' = [epc EXCEPT ![c] = "newContext"]
            /\ UNCHANGED eret
       ELSE /\ epc' = [epc EXCEPT ![c] = "idle"]
            /\ eret' = [eret EXCEPT ![c] = Threw]
            /\ UNCHANGED <<liveBrowsers, browser>>
  /\ UNCHANGED <<context, page, liveContexts, livePages, attached, nextChain,
                 eown, late, cpc, ctarget, firstPage, captureVars, artifactVars,
                 readVars, toolVars>>

\* `this.context = await this.browser.newContext(...)` resumes. The engine
\* rejects when the browser has been closed meanwhile.
newContextDone(c, ok) ==
  /\ epc[c] = "newContext"
  /\ ~late[c]
  /\ IF ok /\ eown[c] \in liveBrowsers
       THEN /\ liveContexts' = liveContexts \cup {eown[c]}
            /\ context' = eown[c]
            /\ epc' = [epc EXCEPT ![c] = "newPage"]
            /\ late' = [late EXCEPT ![c] = cpc # "idle" /\ ctarget = eown[c]]
            /\ UNCHANGED eret
       ELSE /\ epc' = [epc EXCEPT ![c] = "idle"]
            /\ eret' = [eret EXCEPT ![c] = Threw]
            /\ UNCHANGED <<liveContexts, context, late>>
  /\ UNCHANGED <<browser, page, liveBrowsers, livePages, attached, nextChain,
                 eown, cpc, ctarget, firstPage, captureVars, artifactVars,
                 readVars, toolVars>>

\* `this.page = await this.context.newPage()` resumes, then
\* setDefaultTimeout, attachListeners and `return this.page!`.
newPageDone(c, ok) ==
  /\ epc[c] = "newPage"
  /\ ~late[c]
  /\ IF ok /\ eown[c] \in liveContexts
       THEN /\ livePages' = livePages \cup {eown[c]}
            /\ page' = eown[c]
            /\ attached' = attached \cup {eown[c]}
            /\ eret' = [eret EXCEPT ![c] = eown[c]]
            /\ firstPage' = IF firstPage = NoHandle /\ eret[c] = NoResult
                              THEN eown[c] ELSE firstPage
       ELSE /\ eret' = [eret EXCEPT ![c] = Threw]
            /\ UNCHANGED <<livePages, page, attached, firstPage>>
  /\ epc' = [epc EXCEPT ![c] = "idle"]
  /\ UNCHANGED <<browser, context, liveBrowsers, liveContexts, nextChain,
                 eown, late, cpc, ctarget, captureVars, artifactVars,
                 readVars, toolVars>>

\* The engine answers the calls made on one browser in the order they were
\* made: an awaited close resumes only after the creation calls made before
\* it on the same chain have resumed, and a creation call made after it
\* resumes only after it (the guard ~late[c]).
closeMayResume ==
  \A c \in Callers :
    (epc[c] \in {"newContext", "newPage"} /\ eown[c] = ctarget) => late[c]

\* Every call still awaited was made before the close call made now.
noneLate == [c \in Callers |-> FALSE]

\* A close() step marks the ensureBrowser() activations it overlaps.
overlap(ret) ==
  [c \in Callers |-> IF epc[c] # "idle" THEN Overlapped ELSE ret[c]]

\* close() from the test `if (this.context)` on: the next await it reaches.
closeFromContext(ctx, brw) ==
  IF ctx # NoHandle THEN <<"context", ctx>>
  ELSE IF brw # NoHandle THEN <<"browser", brw>>
  ELSE <<"idle", NoHandle>>

\* close(), entry to the first await.
closeCall ==
  /\ cpc = "idle"
  /\ LET next == IF page # NoHandle THEN <<"page", page>>
                 ELSE closeFromContext(context, browser)
     IN /\ cpc' = next[1]
        /\ ctarget' = next[2]
  /\ firstPage' = NoHandle
  /\ eret' = overlap(eret)
  /\ late' = noneLate
  /\ UNCHANGED <<sessionVars, engineVars, epc, eown, captureVars, artifactVars,
                 readVars, toolVars>>

\* `await this.page.close().catch(() => {})` resumes (a failure is
\* swallowed and leaves the page open); `this.page = null`.
closePageDone(ok) ==
  /\ cpc = "page"
  /\ closeMayResume
  /\ livePages' = IF ok THEN livePages \ {ctarget} ELSE livePages
  /\ page' = NoHandle
  /\ LET next == closeFromContext(context, browser)
     IN /\ cpc' = next[1]
        /\ ctarget' = next[2]
  /\ firstPage' = NoHandle
  /\ eret' = overlap(eret)
  /\ late' = noneLate
  /\ UNCHANGED <<browser, context, liveBrowsers, liveContexts, attached,
                 nextChain, epc, eown, captureVars, artifactVars,
                 readVars, toolVars>>

\* `await this.context.close().catch(() => {})` resumes: closing a context
\* closes its page; `this.context = null`.
closeContextDone(ok) ==
  /\ cpc = "context"
  /\ closeMayResume
  /\ liveContexts' = IF ok THEN liveContexts \ {ctarget} ELSE liveContexts
  /\ livePages' = IF ok THEN livePages \ {ctarget} ELSE livePages
  /\ context' = NoHandle
  /\ LET next == closeFromContext(NoHandle, browser)
     IN /\ cpc' = next[1]
        /\ ctarget' = next[2]
  /\ firstPage' = NoHandle
  /\ eret' = overlap(eret)
  /\ late' = noneLate
  /\ UNCHANGED <<browser, page, liveBrowsers, attached, nextChain, epc, eown,
                 captureVars, artifactVars,
                 readVars, toolVars>>

\* Mutant of closeBrowserDone: the end of close() also empties the console
\* history.
closeBrowserDoneClearing(ok) ==
  /\ cpc = "browser"
  /\ closeMayResume
  /\ liveBrowsers' = IF ok THEN liveBrowsers \ {ctarget} ELSE liveBrowsers
  /\ liveContexts' = IF ok THEN liveContexts \ {ctarget} ELSE liveContexts
  /\ livePages' = IF ok THEN livePages \ {ctarget} ELSE livePages
  /\ browser' = NoHandle
  /\ cpc' = "idle"
  /\ ctarget' = NoHandle
  /\ firstPage' = NoHandle
  /\ eret' = overlap(eret)
  /\ late' = noneLate
  /\ consoleLogs' = <<>>
  /\ UNCHANGED <<context, page, attached, nextChain, epc, eown,
                 networkRequests, heap, wire, listeners, nextReq, now, emitted,
                 artifactVars, readVars, toolVars>>

\* `await this.browser.close().catch(() => {})` resumes: closing a browser
\* closes its context and page; `this.browser = null`.
closeBrowserDone(ok) ==
  /\ cpc = "browser"
  /\ closeMayResume
  /\ liveBrowsers' = IF ok THEN liveBrowsers \ {ctarget} ELSE liveBrowsers
  /\ liveContexts' = IF ok THEN liveContexts \ {ctarget} ELSE liveContexts
  /\ livePages' = IF ok THEN livePages \ {ctarget} ELSE livePages
  /\ browser' = NoHandle
  /\ cpc' = "idle"
  /\ ctarget' = NoHandle
  /\ firstPage' = NoHandle
  /\ eret' = overlap(eret)
  /\ late' = noneLate
  /\ UNCHANGED <<context, page, attached, nextChain, epc, eown, captureVars, artifactVars,
                 readVars, toolVars>>

SessionInit ==
  /\ browser = NoHandle /\ context = NoHandle /\ page = NoHandle
  /\ consoleLogs = <<>> /\ networkRequests = <<>>
  /\ liveBrowsers = {} /\ liveContexts = {} /\ livePages = {}
  /\ attached = {} /\ nextChain = 1
  /\ epc = [c \in Callers |-> "idle"]
  /\ eown = [c \in Callers |-> NoHandle]
  /\ eret = [c \in Callers |-> NoResult]
  /\ late = [c \in Callers |-> FALSE]
  /\ cpc = "idle" /\ ctarget = NoHandle
  /\ firstPage = NoHandle
  /\ heap = <<>> /\ wire = {} /\ listeners = {} /\ nextReq = 1
  /\ now = 0 /\ emitted = <<>>
  /\ screenshots = <<>> /\ domSnapshots = <<>> /\ stored = <<>>
  /\ consoleRead = <<>> /\ networkRead = <<>>
  /\ toolResult = NoResponse /\ dom = NoDocument /\ pending = NoCall

SessionNext ==
  \/ \E c \in Callers : ensureBrowserCall(c)
  \/ \E c \in Callers, ok \in BOOLEAN : launchDone(c, ok)
  \/ \E c \in Callers, ok \in BOOLEAN : newContextDone(c, ok)
  \/ \E c \in Callers, ok \in BOOLEAN : newPageDone(c, ok)
  \/ closeCall
  \/ \E ok \in BOOLEAN : closePageDone(ok)
  \/ \E ok \in BOOLEAN : closeContextDone(ok)
  \/ \E ok \in BOOLEAN : closeBrowserDone(ok)

SessionSpec == SessionInit /\ [][SessionNext]_vars

\* ========================================================== event capture

\* Console kinds the page reports (ConsoleMessage.type()) and message texts;
\* texts, URLs and methods are character sequences.
PageKinds == {"log", "error", "dir"}
\* The kinds a ConsoleLogEntry is declared to have.
EntryKinds == {"log", "debug", "info", "error", "warning", "trace"}
Texts == {<<"a">>, <<"A", "b">>}
\* What the page requests: <<url, method>>.
Requests == {<< <<"/", "a">>, <<"G", "E", "T">> >>,
             << <<"/", "a">>, <<"P", "O", "S", "T">> >>,
             << <<"/", "b">>, <<"G", "E", "T">> >>}
\* Status codes the captured responses carry. The listeners copy the status
\* through and never branch on it.
Statuses == {200}
\* safeGetBody's cap on the captured body, in characters.
BodyCap == 10000
\* Body lengths the network capture draws from (one past the cap).
BodyLens == {BodyCap + 1}

\* An absent optional field is <<>>, a present one <<value>>.
Absent == <<>>
Some(v) == <<v>>

\* The console listener's entry for a message (location left out: it is
\* copied through and read by no operation modelled here).
consoleEntry(kind, text) ==
  [type |-> kind, text |-> text, timestamp |-> now]

\* Mutant of pushConsole: unshift instead of push.
unshiftConsole(logs, e) == <<e>> \o logs

\* Mutant of pushConsole: the newest entry is replaced.
replaceNewestConsole(logs, e) ==
  IF logs = <<>> THEN <<e>> ELSE [logs EXCEPT ![Len(logs)] = e]

\* `this.consoleLogs.push({...})`.
pushConsole(logs, e) == Append(logs, e)

\* page.on('console', ...)
consoleEvent(kind, text) ==
  /\ attached # {}
  /\ Len(consoleLogs) < MaxConsole
  /\ consoleLogs' = pushConsole(consoleLogs, consoleEntry(kind, text))
  /\ emitted' = Append(emitted, [type |-> kind, text |-> text])
  /\ UNCHANGED <<sessionVars, engineVars, callVars, artifactVars, readVars, toolVars,
                 networkRequests, heap,
                 wire, listeners, nextReq, now>>

\* page.on('request', ...): a new entry, response pending, is pushed.
requestEvent(u, m) ==
  /\ attached # {}
  /\ nextReq <= MaxReq
  /\ heap' = Append(heap, [id |-> nextReq, url |-> u, method |-> m,
                           timestamp |-> now, duration |-> Absent,
                           response |-> Absent])
  /\ networkRequests' = Append(networkRequests, nextReq)
  /\ wire' = wire \cup {nextReq}
  /\ nextReq' = nextReq + 1
  /\ UNCHANGED <<sessionVars, engineVars, callVars, artifactVars, readVars, toolVars,
                 consoleLogs, listeners,
                 now, emitted>>

\* The predicate of the response listener's find.
matchesPending(e, u, m) ==
  e.url = u /\ e.method = m /\ e.response = Absent

\* Mutant of findEntry: findLast instead of find.
findLastEntry(u, m) ==
  LET hits == {i \in 1..Len(networkRequests) :
                 matchesPending(heap[networkRequests[i]], u, m)}
  IN IF hits = {} THEN NoHandle
     ELSE networkRequests[CHOOSE i \in hits : \A j \in hits : i >= j]

\* `this.networkRequests.find(...)`: the first entry in history order that
\* satisfies the predicate, or NoHandle for undefined.
findEntry(u, m) ==
  LET hits == {i \in 1..Len(networkRequests) :
                 matchesPending(heap[networkRequests[i]], u, m)}
  IN IF hits = {} THEN NoHandle
     ELSE networkRequests[CHOOSE i \in hits : \A j \in hits : i <= j]

\* Mutant of elapsed: the operands swapped.
elapsedSwapped(e) == e.timestamp - now

\* `Date.now() - entry.timestamp`.
elapsed(e) == now - e.timestamp

\* Mutant of responseEvent: a response that finds no entry pushes one.
responseEventMaterializes(r) ==
  /\ attached # {}
  /\ r \in wire
  /\ wire' = wire \ {r}
  /\ LET t == findEntry(heap[r].url, heap[r].method)
     IN IF t = NoHandle
          THEN /\ networkRequests' = Append(networkRequests, r)
               /\ UNCHANGED <<heap, listeners>>
          ELSE /\ heap' = [heap EXCEPT ![t].duration = Some(now - heap[t].timestamp)]
               /\ listeners' = listeners \cup {[entry |-> t, req |-> r]}
               /\ UNCHANGED networkRequests
  /\ UNCHANGED <<sessionVars, engineVars, callVars, artifactVars, readVars, toolVars,
                 consoleLogs, nextReq, now,
                 emitted>>

\* page.on('response', ...) up to its await: the entry is looked up and, if
\* found, its duration is set; the listener then suspends in safeGetBody
\* with the entry in hand. r is the request the response answers.
responseEvent(r) ==
  /\ attached # {}
  /\ r \in wire
  /\ wire' = wire \ {r}
  /\ LET t == findEntry(heap[r].url, heap[r].method)
     IN IF t = NoHandle
          THEN UNCHANGED <<heap, listeners>>
          ELSE /\ heap' = [heap EXCEPT ![t].duration = Some(elapsed(heap[t]))]
               /\ listeners' = listeners \cup
                    {[entry |-> t, req |-> r]}
  /\ UNCHANGED <<sessionVars, engineVars, callVars, artifactVars, readVars, toolVars,
                 consoleLogs,
                 networkRequests, nextReq, now, emitted>>

\* Mutant of safeGetBody: a read that throws yields the empty text.
safeGetBodyEmptyOnThrow(textLike, readOk, len) ==
  IF ~textLike THEN Absent
  ELSE IF ~readOk THEN Some([len |-> 0, truncated |-> FALSE])
  ELSE IF len > BodyCap THEN Some([len |-> BodyCap, truncated |-> TRUE])
  ELSE Some([len |-> len, truncated |-> FALSE])

\* safeGetBody: the text of a JSON or text/* response, cut to BodyCap
\* characters plus a marker; undefined for another content type or when the
\* read throws.
safeGetBody(textLike, readOk, len) ==
  IF ~textLike \/ ~readOk THEN Absent
  ELSE IF len > BodyCap THEN Some([len |-> BodyCap, truncated |-> TRUE])
  ELSE Some([len |-> len, truncated |-> FALSE])

\* Mutant of fillResponse: the entry of the response's own request is
\* filled, not the entry the listener looked up.
fillResponseOfRequest(h, l, status, body) ==
  [h EXCEPT ![l.req].response =
     Some([status |-> status, body |-> body, of |-> l.req])]

\* `entry.response = {...}` for the entry the listener holds. `of` is the
\* request the response answers (it stands for the response's own fields).
fillResponse(h, l, status, body) ==
  [h EXCEPT ![l.entry].response =
     Some([status |-> status, body |-> body, of |-> l.req])]

\* The response listener resumes after `await this.safeGetBody(response)`.
\* The response's status and content type are fixed when it arrives; nothing
\* reads them before this step, so they are drawn here.
bodyDone(l, status, textLike, readOk, len) ==
  /\ l \in listeners
  /\ heap' = fillResponse(heap, l, status, safeGetBody(textLike, readOk, len))
  /\ listeners' = listeners \ {l}
  /\ UNCHANGED <<sessionVars, engineVars, callVars, artifactVars, readVars, toolVars,
                 consoleLogs,
                 networkRequests, wire, nextReq, now, emitted>>

\* String.prototype.toLowerCase and includes, on character sequences.
lowerChar(ch) == IF ch = "A" THEN "a" ELSE IF ch = "B" THEN "b" ELSE ch
\* Mutant of toLowerCase: the case is kept.
keepCase(str) == str
toLowerCase(str) == [i \in 1..Len(str) |-> lowerChar(str[i])]
includes(str, sub) ==
  \E i \in 1..(Len(str) + 1) :
    /\ i + Len(sub) - 1 <= Len(str)
    /\ SubSeq(str, i, i + Len(sub) - 1) = sub
arrayIncludes(arr, x) == \E i \in 1..Len(arr) : arr[i] = x

\* A filter with every dimension absent (also: no filter argument).
NoFilter == [types |-> Absent, since |-> Absent, search |-> Absent]

\* getConsoleLogs(filter): a copy of the history, narrowed by each dimension
\* that is provided and truthy (a non-empty types array, a non-zero since,
\* a non-empty search string).
getConsoleLogs(filter) ==
  LET byType == IF filter.types # Absent /\ filter.types[1] # <<>>
                  THEN SelectSeq(consoleLogs,
                                 LAMBDA e : arrayIncludes(filter.types[1], e.type))
                  ELSE consoleLogs
      bySince == IF filter.since # Absent /\ filter.since[1] # 0
                   THEN SelectSeq(byType,
                                  LAMBDA e : e.timestamp >= filter.since[1])
                   ELSE byType
  IN IF filter.search # Absent /\ filter.search[1] # <<>>
       THEN SelectSeq(bySince,
                      LAMBDA e : includes(toLowerCase(e.text),
                                          toLowerCase(filter.search[1])))
       ELSE bySince

\* String.prototype.toUpperCase on character sequences (the letters the
\* texts and methods drawn here are made of).
LowerCase == <<"a", "b", "c", "e", "g", "h", "o", "p", "s", "t">>
UpperCase == <<"A", "B", "C", "E", "G", "H", "O", "P", "S", "T">>
upperChar(ch) ==
  IF \E i \in 1..Len(LowerCase) : LowerCase[i] = ch
    THEN UpperCase[CHOOSE i \in 1..Len(LowerCase) : LowerCase[i] = ch]
    ELSE ch
toUpperCase(str) == [i \in 1..Len(str) |-> upperChar(str[i])]

\* RegExp.prototype.test for patterns made of literal characters, `.`, a
\* leading `^` and a trailing `$`: matchHere matches the pattern at the start
\* of the text, regexTest searches every start position.
RECURSIVE matchHere(_, _)
matchHere(re, text) ==
  IF re = <<>> THEN TRUE
  ELSE IF re = <<"$">> THEN text = <<>>
  ELSE IF text # <<>> /\ (re[1] = "." \/ re[1] = text[1])
    THEN matchHere(Tail(re), Tail(text))
  ELSE FALSE

regexTest(re, text) ==
  IF re # <<>> /\ re[1] = "^"
    THEN matchHere(Tail(re), text)
    ELSE \E i \in 1..(Len(text) + 1) : matchHere(re, SubSeq(text, i, Len(text)))

\* A network filter with every dimension absent.
NoNetworkFilter ==
  [urlPattern |-> Absent, methods |-> Absent, statusCodes |-> Absent,
   failed |-> Absent]

\* Mutant of failedEntry: status > 400.
failedEntryAbove(e) ==
  e.response = Absent \/ e.response[1].status > 400

\* The predicate of the failed filter: `!r.response || r.response.status >= 400`.
failedEntry(e) ==
  e.response = Absent \/ e.response[1].status >= 400

\* getNetworkRequests(filter): a copy of the history (references to the
\* same entry objects), narrowed by each dimension that is provided and
\* truthy (a non-empty pattern, non-empty methods and statusCodes arrays,
\* failed = true). The filter's methods are upper-cased, the entries'
\* methods are compared as captured.
getNetworkRequests(filter) ==
  LET byUrl == IF filter.urlPattern # Absent /\ filter.urlPattern[1] # <<>>
                 THEN SelectSeq(networkRequests,
                                LAMBDA r : regexTest(filter.urlPattern[1],
                                                     heap[r].url))
                 ELSE networkRequests
      methodsUpper == [i \in 1..Len(filter.methods[1]) |->
                         toUpperCase(filter.methods[1][i])]
      byMethod == IF filter.methods # Absent /\ filter.methods[1] # <<>>
                    THEN SelectSeq(byUrl,
                                   LAMBDA r : arrayIncludes(methodsUpper,
                                                            heap[r].method))
                    ELSE byUrl
      byStatus == IF filter.statusCodes # Absent /\ filter.statusCodes[1] # <<>>
                    THEN SelectSeq(byMethod,
                                   LAMBDA r :
                                     /\ heap[r].response # Absent
                                     /\ arrayIncludes(filter.statusCodes[1],
                                                      heap[r].response[1].status))
                    ELSE byMethod
  IN IF filter.failed = Some(TRUE)
       THEN SelectSeq(byStatus, LAMBDA r : failedEntry(heap[r]))
       ELSE byStatus

\* clearConsoleLogs()
clearConsoleLogs ==
  /\ consoleLogs' = <<>>
  /\ emitted' = <<>>
  /\ UNCHANGED <<sessionVars, engineVars, callVars, artifactVars, readVars, toolVars,
                 networkRequests, heap,
                 wire, listeners, nextReq, now>>

\* Mutant of clearNetworkRequests: the newest entry is kept.
clearNetworkRequestsButNewest ==
  /\ networkRequests' = IF networkRequests = <<>> THEN <<>>
                        ELSE <<networkRequests[Len(networkRequests)]>>
  /\ UNCHANGED <<sessionVars, engineVars, callVars, artifactVars, readVars, toolVars,
                 consoleLogs, heap, wire, listeners, nextReq, now, emitted>>

\* clearNetworkRequests()
clearNetworkRequests ==
  /\ networkRequests' = <<>>
  /\ UNCHANGED <<sessionVars, engineVars, callVars, artifactVars, readVars, toolVars,
                 consoleLogs, heap, wire,
                 listeners, nextReq, now, emitted>>

\* The wall clock advances.
tick ==
  /\ now < MaxClock
  /\ now' = now + 1
  /\ UNCHANGED <<sessionVars, engineVars, callVars, artifactVars, readVars, toolVars,
                 consoleLogs,
                 networkRequests, heap, wire, listeners, nextReq, emitted>>

\* The state after the first ensureBrowser() has returned its page.
CreatedInit ==
  /\ browser = 1 /\ context = 1 /\ page = 1
  /\ networkRequests = <<>>
  /\ liveBrowsers = {1} /\ liveContexts = {1} /\ livePages = {1}
  /\ attached = {1} /\ nextChain = 2
  /\ epc = [c \in Callers |-> "idle"]
  /\ eown = [c \in Callers |-> NoHandle]
  /\ eret = [c \in Callers |-> IF c = 1 THEN 1 ELSE NoResult]
  /\ late = [c \in Callers |-> FALSE]
  /\ cpc = "idle" /\ ctarget = NoHandle
  /\ firstPage = 1
  /\ heap = <<>> /\ wire = {} /\ listeners = {} /\ nextReq = 1
  /\ now = 0
  /\ screenshots = <<>> /\ domSnapshots = <<>> /\ stored = <<>>
  /\ consoleRead = <<>> /\ networkRead = <<>>
  /\ toolResult = NoResponse /\ dom = NoDocument /\ pending = NoCall

\* Console capture: the console listener, the clear, the clock.
ConsoleInit ==
  /\ CreatedInit
  /\ consoleLogs = <<>>
  /\ emitted = <<>>

ConsoleNext ==
  \/ \E kind \in PageKinds, text \in Texts : consoleEvent(kind, text)
  \/ clearConsoleLogs
  \/ tick

ConsoleSpec == ConsoleInit /\ [][ConsoleNext]_vars

\* Network capture: the request and response listeners, the clear, the
\* clock, started after one console message has been captured. No network
\* operation reads or writes the console history, and no console operation
\* the network history, so the two are not interleaved.
Init ==
  /\ CreatedInit
  /\ consoleLogs = <<[type |-> "log", text |-> <<"a">>, timestamp |-> 0]>>
  /\ emitted = <<[type |-> "log", text |-> <<"a">>]>>

Next ==
  \/ \E q \in Requests : requestEvent(q[1], q[2])
  \/ \E r \in wire : responseEvent(r)
  \/ \E l \in listeners, status \in Statuses, textLike \in BOOLEAN,
        readOk \in BOOLEAN, len \in BodyLens :
          bodyDone(l, status, textLike, readOk, len)
  \/ clearNetworkRequests
  \/ tick

Spec == Init /\ [][Next]_vars

\* Filters the reads are asked with. An optional dimension is absent, or
\* present with a value; the arrays may be empty and since may be 0.
ConsoleFilters ==
  [types : {Absent, Some(<<>>), Some(<<"error">>), Some(<<"log", "warning">>)},
   since : {Absent, Some(0), Some(MaxClock)},
   search : {Absent, Some(<<"a">>), Some(<<"B">>)}]

NetworkFilters ==
  [urlPattern : {Absent, Some(<<"a", "$">>), Some(<<"^", "/", ".", "b">>)},
   methods : {Absent, Some(<<>>),
              Some(<< <<"g", "e", "t">>, <<"P", "A", "T", "C", "H">> >>)},
   statusCodes : {Absent, Some(<<>>), Some(<<400, 404>>)},
   failed : {Absent, Some(TRUE), Some(FALSE)}]

\* The entry objects of the array getConsoleLogs(filter) returns, as their
\* positions in the history: the array is new, its elements are the
\* history's own objects.
consoleRefs(filter) ==
  LET got == getConsoleLogs(filter)
  IN SelectSeq([i \in 1..Len(consoleLogs) |-> i],
               LAMBDA i : \E j \in 1..Len(got) : got[j] = consoleLogs[i])

\* A caller calls getConsoleLogs(filter) and keeps the array.
readConsole(filter) ==
  /\ consoleRead' = consoleRefs(filter)
  /\ UNCHANGED <<sessionVars, engineVars, callVars, captureVars, artifactVars,
                 toolVars, networkRead>>

\* A caller calls getNetworkRequests(filter) and keeps the array.
readNetwork(filter) ==
  /\ networkRead' = getNetworkRequests(filter)
  /\ UNCHANGED <<sessionVars, engineVars, callVars, captureVars, artifactVars,
                 toolVars, consoleRead>>

\* The caller pushes an element onto the array it holds, or pops one.
callerPushesLog(i) ==
  /\ i \in 1..Len(consoleRead)
  /\ Len(consoleRead) < MaxConsole
  /\ consoleRead' = Append(consoleRead, consoleRead[i])
  /\ UNCHANGED <<sessionVars, engineVars, callVars, captureVars, artifactVars,
                 toolVars, networkRead>>

callerPopsLog ==
  /\ consoleRead # <<>>
  /\ consoleRead' = SubSeq(consoleRead, 1, Len(consoleRead) - 1)
  /\ UNCHANGED <<sessionVars, engineVars, callVars, captureVars, artifactVars,
                 toolVars, networkRead>>

\* The caller assigns the text field of an element of the array it holds.
callerSetsLogText(i, text) ==
  /\ i \in 1..Len(consoleRead)
  /\ consoleLogs' = [consoleLogs EXCEPT ![consoleRead[i]].text = text]
  /\ UNCHANGED <<sessionVars, engineVars, callVars, artifactVars, readVars, toolVars,
                 networkRequests, heap, wire, listeners, nextReq, now, emitted>>

callerPushesRequest(i) ==
  /\ i \in 1..Len(networkRead)
  /\ Len(networkRead) < MaxReq
  /\ networkRead' = Append(networkRead, networkRead[i])
  /\ UNCHANGED <<sessionVars, engineVars, callVars, captureVars, artifactVars,
                 toolVars, consoleRead>>

callerPopsRequest ==
  /\ networkRead # <<>>
  /\ networkRead' = SubSeq(networkRead, 1, Len(networkRead) - 1)
  /\ UNCHANGED <<sessionVars, engineVars, callVars, captureVars, artifactVars,
                 toolVars, consoleRead>>

\* The caller assigns the url field of an element of the array it holds.
callerSetsRequestUrl(i, u) ==
  /\ i \in 1..Len(networkRead)
  /\ heap' = [heap EXCEPT ![networkRead[i]].url = u]
  /\ UNCHANGED <<sessionVars, engineVars, callVars, artifactVars, readVars, toolVars,
                 consoleLogs, networkRequests, wire, listeners, nextReq, now,
                 emitted>>

\* The session as the first ensureBrowser() leaves it, some time later:
\* nothing in flight, no artifact stored, no read made yet.
QuerySession ==
  /\ browser = 1 /\ context = 1 /\ page = 1
  /\ liveBrowsers = {1} /\ liveContexts = {1} /\ livePages = {1}
  /\ attached = {1} /\ nextChain = 2
  /\ epc = [c \in Callers |-> "idle"]
  /\ eown = [c \in Callers |-> NoHandle]
  /\ eret = [c \in Callers |-> IF c = 1 THEN 1 ELSE NoResult]
  /\ late = [c \in Callers |-> FALSE]
  /\ cpc = "idle" /\ ctarget = NoHandle
  /\ firstPage = 1
  /\ wire = {} /\ listeners = {}
  /\ now = MaxClock
  /\ screenshots = <<>> /\ domSnapshots = <<>> /\ stored = <<>>
  /\ consoleRead = <<>> /\ networkRead = <<>>
  /\ toolResult = NoResponse /\ dom = NoDocument /\ pending = NoCall

\* Console histories to read: up to MaxConsole entries of two kinds and two
\* texts, their timestamps in capture order.
QueryKinds == {"log", "error"}
ConsoleEntries == [type : QueryKinds, text : Texts, timestamp : 0..MaxClock]

ConsoleQueryInit ==
  /\ QuerySession
  /\ networkRequests = <<>> /\ heap = <<>> /\ nextReq = 1
  /\ \E n \in 0..MaxConsole :
       \E h \in [1..n -> ConsoleEntries] :
         /\ \A i \in 1..n, j \in 1..n : i <= j => h[i].timestamp <= h[j].timestamp
         /\ consoleLogs = h
         /\ emitted = [i \in 1..n |-> [type |-> h[i].type, text |-> h[i].text]]

ConsoleQueryNext ==
  \/ \E f \in ConsoleFilters : readConsole(f)
  \/ \E i \in 1..Len(consoleRead) : callerPushesLog(i)
  \/ callerPopsLog
  \/ \E i \in 1..Len(consoleRead), text \in Texts : callerSetsLogText(i, text)

ConsoleQuerySpec == ConsoleQueryInit /\ [][ConsoleQueryNext]_vars

\* Network histories to read: up to MaxReq entries, each with one of two
\* URLs, a method as the page sent it (fetch leaves `patch` in lower case),
\* and no response yet or a response with one of two statuses.
QueryUrls == {<<"/", "a">>, <<"/", "a", "b">>}
QueryMethods == {<<"G", "E", "T">>, <<"p", "a", "t", "c", "h">>}
QueryStatuses == {200, 400}
QueryShapes ==
  [url : QueryUrls, method : QueryMethods,
   response : {Absent} \cup {Some(st) : st \in QueryStatuses}]

\* The entry object with id i that the listeners leave for a shape.
queryEntry(i, q) ==
  [id |-> i, url |-> q.url, method |-> q.method, timestamp |-> 0,
   duration |-> IF q.response = Absent THEN Absent ELSE Some(MaxClock),
   response |-> IF q.response = Absent THEN Absent
                ELSE Some([status |-> q.response[1], body |-> Absent, of |-> i])]

NetworkQueryInit ==
  /\ QuerySession
  /\ consoleLogs = <<>> /\ emitted = <<>>
  /\ \E n \in 0..MaxReq :
       \E h \in [1..n -> QueryShapes] :
         /\ heap = [i \in 1..n |-> queryEntry(i, h[i])]
         /\ networkRequests = [i \in 1..n |-> i]
         /\ nextReq = n + 1

NetworkQueryNext ==
  \/ \E f \in NetworkFilters : readNetwork(f)
  \/ \E i \in 1..Len(networkRead) : callerPushesRequest(i)
  \/ callerPopsRequest
  \/ \E i \in 1..Len(networkRead), u \in QueryUrls : callerSetsRequestUrl(i, u)

NetworkQuerySpec == NetworkQueryInit /\ [][NetworkQueryNext]_vars

\* Both captures and both clears on a created session, started after one
\* console message has been captured: every listener may fire between any
\* two steps. The page logs one message and requests one URL, repeatedly,
\* and every response has a text body that is read.
HistoryNext ==
  \/ \E kind \in {"error"}, text \in {<<"A", "b">>} : consoleEvent(kind, text)
  \/ \E u \in {<<"/", "a">>}, m \in {<<"G", "E", "T">>} : requestEvent(u, m)
  \/ \E r \in wire : responseEvent(r)
  \/ \E l \in listeners, status \in Statuses, len \in BodyLens :
       bodyDone(l, status, TRUE, TRUE, len)
  \/ clearConsoleLogs
  \/ clearNetworkRequests
  \/ tick

HistorySpec == Init /\ [][HistoryNext]_vars

\* ========================================================= artifact store

\* Names the callers choose, and the payloads: PNG buffers and HTML strings.
Names == {"home", "cart"}
Buffers == {"png1", "png2"}
Htmls == {"<p>", "<b>"}

\* Mutant of mapSet: a name already present keeps its payload.
mapSetIfAbsent(m, k, v) ==
  IF \E i \in 1..Len(m) : m[i].key = k THEN m
  ELSE Append(m, [key |-> k, value |-> v])

\* Mutant of mapSet: the pair is appended even if the name is present.
mapSetAppend(m, k, v) == Append(m, [key |-> k, value |-> v])

\* Map.prototype.set: the value of a key already present is replaced where
\* it stands, a new key goes last.
mapSet(m, k, v) ==
  IF \E i \in 1..Len(m) : m[i].key = k
    THEN [i \in 1..Len(m) |-> IF m[i].key = k THEN [key |-> k, value |-> v]
                                ELSE m[i]]
    ELSE Append(m, [key |-> k, value |-> v])

\* Map.prototype.get: the value of the key, or undefined.
mapGet(m, k) ==
  IF \E i \in 1..Len(m) : m[i].key = k
    THEN Some(m[CHOOSE i \in 1..Len(m) : m[i].key = k].value)
    ELSE Absent

\* Array.from(map.keys()): the keys in insertion order.
mapKeys(m) == [i \in 1..Len(m) |-> m[i].key]

storeScreenshot(name, buffer) ==
  /\ Len(stored) < MaxStores
  /\ screenshots' = mapSet(screenshots, name, buffer)
  /\ stored' = Append(stored, [kind |-> "screenshot", name |-> name,
                               payload |-> buffer])
  /\ UNCHANGED <<sessionVars, engineVars, callVars, captureVars, readVars, toolVars,
                 domSnapshots>>

storeDomSnapshot(name, html) ==
  /\ Len(stored) < MaxStores
  /\ domSnapshots' = mapSet(domSnapshots, name, html)
  /\ stored' = Append(stored, [kind |-> "dom", name |-> name,
                               payload |-> html])
  /\ UNCHANGED <<sessionVars, engineVars, callVars, captureVars, readVars, toolVars,
                 screenshots>>

getScreenshot(name) == mapGet(screenshots, name)
getDomSnapshot(name) == mapGet(domSnapshots, name)
listScreenshots == mapKeys(screenshots)
listDomSnapshots == mapKeys(domSnapshots)

\* The store from construction on; it does not depend on the session.
ArtifactNext ==
  \/ \E name \in Names, buffer \in Buffers : storeScreenshot(name, buffer)
  \/ \E name \in Names, html \in Htmls : storeDomSnapshot(name, html)

ArtifactSpec == SessionInit /\ [][ArtifactNext]_vars

\* ============================================================ visual diff

\* A screenshot buffer: a PNG of width x height pixels, black except for its
\* first `lit` pixels in row order, which have grey level `shade`; or bytes
\* that are no image (valid = FALSE).
png(w, h, lit, shade) ==
  [valid |-> TRUE, width |-> w, height |-> h, lit |-> lit, shade |-> shade]
NotAnImage ==
  [valid |-> FALSE, width |-> 0, height |-> 0, lit |-> 0, shade |-> 0]
Pngs == {png(10, 10, 0, 0), png(10, 10, 1, 20),
         png(11, 10, 0, 0), png(11, 10, 1, 255), png(10, 11, 0, 0),
         NotAnImage}
\* The caller's threshold argument, in tenths (the default is 0.1).
Thresholds == {0, 1}

\* sharp(buffer).raw().ensureAlpha().toBuffer({resolveWithObject: true}):
\* the decoded pixels, one grey level per pixel, and the dimensions.
sharpRaw(buffer) ==
  [info |-> [width |-> buffer.width, height |-> buffer.height],
   data |-> [i \in 1..(buffer.width * buffer.height) |->
               IF i <= buffer.lit THEN buffer.shade ELSE 0]]

\* pixelmatch(img1, img2, output, width, height, {threshold}): the number of
\* pixels whose colour distance exceeds 35215 * threshold^2; for two grey
\* levels the distance is 0.5053 times the squared difference. Scaled by
\* 10000, with the threshold in tenths.
pixelmatch(data1, data2, width, height, threshold) ==
  Cardinality({i \in 1..(width * height) :
     5053 * (data1[i] - data2[i]) * (data1[i] - data2[i])
       > 3521500 * threshold * threshold})

\* ---- IEEE 754 double arithmetic, as far as `(d / t) * 100 < 1` needs it.
\* A positive double is its 53-bit significand, most significant bit first,
\* and the exponent of its last bit; zero has the empty significand.
SignificandBits == 53
Zero == [m |-> <<>>, e |-> 0]

RECURSIVE toBits(_)
toBits(n) == IF n = 0 THEN <<>> ELSE Append(toBits(n \div 2), n % 2)
RECURSIVE pow2(_)
pow2(n) == IF n = 0 THEN 1 ELSE 2 * pow2(n - 1)
\* 2^k modulo t, by squaring.
RECURSIVE pow2mod(_, _)
pow2mod(k, t) ==
  IF k = 0 THEN 1 % t
  ELSE LET h == pow2mod(k \div 2, t)
       IN IF k % 2 = 0 THEN (h * h) % t ELSE (2 * h * h) % t

\* What is left of r after n binary digits of the fraction r / t (r < t),
\* and the first n digits: the k-th is the doubling of what the k-1 before
\* it left.
fracRem(r, t, n) == (r * pow2mod(n, t)) % t
fracDigits(r, t, n) == [k \in 1..n |-> (2 * fracRem(r, t, k - 1)) \div t]
\* Zero digits before the first one digit of the fraction r / t (0 < r < t).
leadingZeros(r, t) ==
  CHOOSE z \in 0..30 : r * pow2(z + 1) >= t /\ (z = 0 \/ r * pow2(z) < t)

\* m + 1 on a bit sequence: the last zero becomes one and the ones after it
\* zeros; a carry out of the top lengthens the sequence.
increment(m) ==
  IF \A i \in 1..Len(m) : m[i] = 1
    THEN [i \in 1..(Len(m) + 1) |-> IF i = 1 THEN 1 ELSE 0]
    ELSE LET j == CHOOSE i \in 1..Len(m) :
                    m[i] = 0 /\ \A l \in (i + 1)..Len(m) : m[l] = 1
         IN [i \in 1..Len(m) |-> IF i < j THEN m[i] ELSE IF i = j THEN 1 ELSE 0]

\* Round to nearest, ties to even: m with exponent e, `up` telling whether
\* the discarded part calls for the next significand.
roundTo(m, e, up) ==
  IF ~up THEN [m |-> m, e |-> e]
  ELSE IF Len(increment(m)) > Len(m)
    THEN [m |-> SubSeq(increment(m), 1, Len(m)), e |-> e + 1]
    ELSE [m |-> increment(m), e |-> e]

\* d / t for integers d >= 0, t > 0, correctly rounded.
divide(d, t) ==
  IF d = 0 THEN Zero
  ELSE LET ib == toBits(d \div t)
           z == IF ib = <<>> THEN leadingZeros(d % t, t) ELSE 0
           n == SignificandBits - Len(ib) + z
           digits == ib \o fracDigits(d % t, t, n)
           m == SubSeq(digits, z + 1, Len(digits))
           rem == fracRem(d % t, t, n)
       IN roundTo(m, 0 - n,
                  2 * rem > t \/ (2 * rem = t /\ m[Len(m)] = 1))

\* Long multiplication in limbs of LimbBits bits.
LimbBits == 13
\* The limbs of a bit sequence, most significant first, and back.
limbsOf(m) ==
  LET n == (Len(m) + LimbBits - 1) \div LimbBits
      pad == n * LimbBits - Len(m)
      bit(i) == IF i <= pad THEN 0 ELSE m[i - pad]
      RECURSIVE value(_, _)
      value(from, len) ==
        IF len = 0 THEN 0
        ELSE 2 * value(from, len - 1) + bit(from + len - 1)
  IN [l \in 1..n |-> value((l - 1) * LimbBits + 1, LimbBits)]
bitsOf(limbs) ==
  [i \in 1..(Len(limbs) * LimbBits) |->
     (limbs[(i - 1) \div LimbBits + 1]
        \div pow2(LimbBits - 1 - ((i - 1) % LimbBits))) % 2]
\* limbs * k + c, one limb longer.
RECURSIVE timesLimbs(_, _, _)
timesLimbs(limbs, k, c) ==
  IF limbs = <<>> THEN <<c>>
  ELSE LET low == limbs[Len(limbs)] * k + c
       IN Append(timesLimbs(SubSeq(limbs, 1, Len(limbs) - 1), k,
                            low \div pow2(LimbBits)),
                 low % pow2(LimbBits))
\* The bits of m * k, without leading zeros (m starts with a one, k > 0).
timesBits(m, k) ==
  LET p == bitsOf(timesLimbs(limbsOf(m), k, 0))
      first == CHOOSE i \in 1..Len(p) : p[i] = 1 /\ \A l \in 1..(i - 1) : p[l] = 0
  IN SubSeq(p, first, Len(p))

\* x * k for a double x and a small integer k, correctly rounded.
multiply(x, k) ==
  IF x.m = <<>> THEN Zero
  ELSE LET p == timesBits(x.m, k)
           extra == Len(p) - SignificandBits
           kept == SubSeq(p, 1, SignificandBits)
           rest == SubSeq(p, SignificandBits + 1, Len(p))
       IN IF extra <= 0 THEN [m |-> p, e |-> x.e]
          ELSE roundTo(kept, x.e + extra,
                 /\ rest[1] = 1
                 /\ \/ \E i \in 2..Len(rest) : rest[i] = 1
                    \/ kept[Len(kept)] = 1)

\* x < 1, and x <= 1 (x = 1 is a one followed by zeros with value 2^0).
lessThanOne(x) == x.m = <<>> \/ Len(x.m) + x.e <= 0
atMostOne(x) ==
  \/ lessThanOne(x)
  \/ /\ Len(x.m) + x.e = 1
     /\ \A i \in 2..Len(x.m) : x.m[i] = 0

\* `(numDiffPixels / totalPixels) * 100`
diffPercent(numDiffPixels, totalPixels) ==
  multiply(divide(numDiffPixels, totalPixels), 100)

\* Mutant of passed: the pass line is inclusive.
passedInclusive(percent) == atMostOne(percent)

\* `const passed = diffPercent < 1`
passed(percent) == lessThanOne(percent)

\* ---- tool responses. A text is its pieces in order, the first being the
\* prefix (`error:`, `PASS`, `DIFF`, ...) when the text has one.
textItem(text) == [type |-> "text", text |-> text]
imageItem(data) == [type |-> "image", data |-> data, mimeType |-> "image/png"]
\* A tool operation returned `content` after making the library calls
\* `calls`; or it raised (its promise rejected) with `message`.
returned(tool, args, content, calls) ==
  [tool |-> tool, args |-> args, raised |-> FALSE, content |-> content,
   calls |-> calls]
raised(tool, args, message, calls) ==
  [tool |-> tool, args |-> args, raised |-> TRUE,
   content |-> <<textItem(<<message>>)>>, calls |-> calls]
\* `catch (err) { ... text: `error: ${message}` }`
caught(tool, args, message, calls) ==
  returned(tool, args, <<textItem(<<"error:", message>>)>>, calls)

\* Mutant of sameDimensions: only the pixel counts are compared.
sameArea(info1, info2) ==
  info1.width * info1.height = info2.width * info2.height

\* The negation of `img1.info.width !== img2.info.width ||
\* img1.info.height !== img2.info.height`.
sameDimensions(info1, info2) ==
  ~(info1.width # info2.width \/ info1.height # info2.height)

\* Mutant of missing: a stored screenshot is taken for a missing one.
missingAlways(found) == TRUE

\* `!baseline`, `!current` on what the store's get returned: a Buffer is
\* truthy whatever its bytes, undefined is not.
missing(found) == found = Absent

\* visualDiff(args), from `img1` on: both screenshots are present.
compareScreenshots(args, baseline, current) ==
  IF ~baseline.valid
    THEN caught("visual_diff", args, "unsupported image format",
                <<"sharp.raw">>)
  ELSE IF ~current.valid
    THEN caught("visual_diff", args, "unsupported image format",
                <<"sharp.raw", "sharp.raw">>)
  ELSE
    LET img1 == sharpRaw(baseline)
        img2 == sharpRaw(current)
        width == img1.info.width
        height == img1.info.height
        numDiffPixels == pixelmatch(img1.data, img2.data, width, height,
                                    args.threshold)
        totalPixels == width * height
    IN IF ~sameDimensions(img1.info, img2.info)
         THEN returned("visual_diff", args,
                <<textItem(<<"error:", "screenshots have different dimensions",
                             "baseline:", img1.info.width, img1.info.height,
                             "current:", img2.info.width, img2.info.height,
                             "suggestion:">>)>>,
                <<"sharp.raw", "sharp.raw">>)
         ELSE returned("visual_diff", args,
                <<imageItem([width |-> width, height |-> height,
                             marked |-> numDiffPixels]),
                  textItem(<<IF passed(diffPercent(numDiffPixels, totalPixels))
                               THEN "PASS" ELSE "DIFF",
                             numDiffPixels, "pixels differ">>)>>,
                <<"sharp.raw", "sharp.raw", "pixelmatch", "sharp.png">>)

\* What visualDiff(args) returns (the percentage in the verdict text is left
\* out: no property here reads it).
visualDiffResponse(args) ==
  LET baseline == getScreenshot(args.baseline)
      current == getScreenshot(args.current)
  IN IF missing(baseline)
       THEN returned("visual_diff", args,
              <<textItem(<<"error:", "baseline screenshot", args.baseline,
                           "not found", "suggestion:", args.baseline>>)>>,
              <<>>)
     ELSE IF missing(current)
       THEN returned("visual_diff", args,
              <<textItem(<<"error:", "current screenshot", args.current,
                           "not found", "suggestion:", args.current>>)>>,
              <<>>)
     ELSE compareScreenshots(args, baseline[1], current[1])

\* The visual_diff tool.
visualDiff(args) ==
  /\ toolResult' = visualDiffResponse(args)
  /\ UNCHANGED <<sessionVars, engineVars, callVars, captureVars, artifactVars,
                 readVars, dom, pending>>

VisualDiffArgs == [baseline : Names, current : Names, threshold : Thresholds]

\* Screenshots are stored and compared, from construction on.
VisualNext ==
  \/ \E name \in Names, buffer \in Pngs :
       Len(stored) < MaxShots /\ storeScreenshot(name, buffer)
  \/ \E args \in VisualDiffArgs : visualDiff(args)

VisualSpec == SessionInit /\ [][VisualNext]_vars

\* =============================================================== dom diff

\* HTML texts are character sequences; a line break is the character "\n".
LineCap == 100
ShownCap == 10
\* The element `<div>c</div>`, and a line of LineCap + 1 characters.
div(c) == <<"<", "d", "i", "v", ">", c, "<", "/", "d", "i", "v", ">">>
LongLine == [i \in 1..(LineCap + 1) |-> "x"]
\* The texts of the documents compared: two lines, a changed second line, the
\* two lines in the other order with white space and an empty line, a new
\* line that occurs twice, and the long line.
DomTexts == {div("a") \o <<"\n">> \o div("b"),
             div("a") \o <<"\n">> \o div("c"),
             div("b") \o <<" ", "\n", "\n", " ">> \o div("a"),
             div("a") \o <<"\n">> \o div("c") \o <<"\n">> \o div("c"),
             LongLine}
\* What storeDomSnapshot(name, html: string) accepts besides.
EmptyText == <<>>

\* String.prototype.split('\n'): the pieces between the line breaks, one
\* more than there are line breaks.
split(str) ==
  LET breaks == {i \in 1..Len(str) : str[i] = "\n"}
      nth(k) == CHOOSE i \in breaks :
                  Cardinality({j \in breaks : j < i}) = k - 1
      n == Cardinality(breaks) + 1
  IN [k \in 1..n |->
        SubSeq(str, IF k = 1 THEN 1 ELSE nth(k - 1) + 1,
                    IF k = n THEN Len(str) ELSE nth(k) - 1)]

\* String.prototype.trim
trim(str) ==
  LET ink == {i \in 1..Len(str) : str[i] \notin {" ", "\t", "\r", "\n"}}
  IN IF ink = {} THEN <<>>
     ELSE SubSeq(str, CHOOSE i \in ink : \A j \in ink : i <= j,
                      CHOOSE i \in ink : \A j \in ink : i >= j)

\* str.substring(0, n), and array.slice(0, n)
substring(str, n) == SubSeq(str, 1, IF Len(str) < n THEN Len(str) ELSE n)
slice(array, n) == SubSeq(array, 1, IF Len(array) < n THEN Len(array) ELSE n)

\* `new Set(lines.map((l) => l.trim()))`
trimmedSet(lines) == {trim(lines[i]) : i \in 1..Len(lines)}

\* The loop `for (const line of lines) { const trimmed = line.trim(); if
\* (trimmed && !otherSet.has(trimmed)) list.push(trimmed.substring(0, 100)) }`
\* over the lines of one text against the other text's lines.
pushedLines(lines, others) ==
  LET RECURSIVE loop(_, _)
      loop(i, list) ==
        IF i > Len(lines) THEN list
        ELSE loop(i + 1,
               IF trim(lines[i]) # <<>> /\ trim(lines[i]) \notin trimmedSet(others)
                 THEN Append(list, substring(trim(lines[i]), LineCap))
                 ELSE list)
  IN loop(1, <<>>)

\* One block of the DIFF text: `added (N):` or `removed (N):`, the first ten
\* entries, and how many more there are.
changeBlock(label, list) ==
  [label |-> label, count |-> Len(list), shown |-> slice(list, ShownCap),
   more |-> IF Len(list) > ShownCap THEN Len(list) - ShownCap ELSE 0]

\* `!baseline`, `!current` on what the store's get returned: undefined and
\* the empty string are falsy.
missingText(found) == found = Absent \/ found[1] = <<>>

\* What domDiff(args) returns.
domDiffResponse(args) ==
  LET baseline == getDomSnapshot(args.baseline)
      current == getDomSnapshot(args.current)
      baselineLines == split(baseline[1])
      currentLines == split(current[1])
      added == pushedLines(currentLines, baselineLines)
      removed == pushedLines(baselineLines, currentLines)
      changes ==
        (IF Len(added) > 0 THEN <<changeBlock("added", added)>> ELSE <<>>)
        \o (IF Len(removed) > 0 THEN <<changeBlock("removed", removed)>>
            ELSE <<>>)
  IN IF missingText(baseline)
       THEN returned("dom_diff", args,
              <<textItem(<<"error:", "baseline snapshot", args.baseline,
                           "not found", "suggestion:", args.baseline>>)>>,
              <<>>)
     ELSE IF missingText(current)
       THEN returned("dom_diff", args,
              <<textItem(<<"error:", "current snapshot", args.current,
                           "not found", "suggestion:", args.current>>)>>,
              <<>>)
     ELSE IF baseline = current
       THEN returned("dom_diff", args,
              <<textItem(<<"PASS", "no dom differences detected">>)>>, <<>>)
     ELSE returned("dom_diff", args,
            <<textItem(<<"DIFF", Len(added) + Len(removed),
                         "changes detected", changes>>)>>,
            <<>>)

\* The dom_diff tool.
domDiff(args) ==
  /\ toolResult' = domDiffResponse(args)
  /\ UNCHANGED <<sessionVars, engineVars, callVars, captureVars, artifactVars,
                 readVars, dom, pending>>

DomDiffArgs == [baseline : Names, current : Names]

\* Snapshots are stored by a caller of the session manager, with any string,
\* and compared.
DomStoreNext ==
  \/ \E name \in Names, html \in DomTexts \cup {EmptyText} :
       Len(stored) < MaxSnaps /\ storeDomSnapshot(name, html)
  \/ \E args \in DomDiffArgs : domDiff(args)

DomStoreSpec == SessionInit /\ [][DomStoreNext]_vars

\* ================================================================== tools

\* `catch (err) { ... text: `error: ${message}\nsuggestion: ...` }`
caughtWith(tool, args, message, suggestion, calls) ==
  returned(tool, args,
           <<textItem(<<"error:", message, "suggestion:", suggestion>>)>>,
           calls)

\* ---- navigate

\* String.prototype.startsWith
startsWith(str, prefix) ==
  Len(str) >= Len(prefix) /\ SubSeq(str, 1, Len(prefix)) = prefix
Http == <<"h", "t", "t", "p", ":", "/", "/">>
\* config.baseUrl when BASE_URL is not set.
BaseUrl ==
  Http \o <<"l", "o", "c", "a", "l", "h", "o", "s", "t", ":", "3", "0", "0", "0">>

\* The url navigate goes to: a url without scheme is taken under the base.
resolveUrl(url) ==
  IF ~startsWith(url, Http) /\ ~startsWith(url, <<"h", "t", "t", "p", "s", ":", "/", "/">>)
    THEN BaseUrl \o (IF startsWith(url, <<"/">>) THEN url ELSE <<"/">> \o url)
    ELSE url

\* The elements of the page navigated to that are visible once it has
\* loaded, with the clicks the page has received since.
loaded(url) ==
  [url |-> url, title |-> "fixture", shown |-> {"#login-btn", "#show-content"},
   clicked |-> <<>>]

NavigateArgs == [url : {<<"a">>, Http \o <<"b">>}, waitUntil : {"load"}]

\* navigate(args) up to `await sessionManager.ensureBrowser()`.
navigateCall(args) ==
  /\ pending = NoCall
  /\ ensureBrowserEntry(1)
  /\ pending' = [tool |-> "navigate", args |-> args]
  /\ UNCHANGED <<toolResult, dom>>

\* Mutant of navigateSettles: the catch block rethrows what ensureBrowser()
\* rejected with.
navigateSettlesRethrowing(args, page_, ok) ==
  IF page_ = Threw
    THEN raised("navigate", args, "browser, context or page not created",
                <<>>)
  ELSE IF page_ = NoHandle
    THEN caughtWith("navigate", args, "TypeError: cannot read properties of null",
                    "check if the url is correct and the server is running",
                    <<>>)
  ELSE IF ~ok
    THEN caughtWith("navigate", args, "page.goto failed",
                    "check if the url is correct and the server is running",
                    <<"page.goto">>)
  ELSE returned("navigate", args,
                <<textItem(<<"navigated to", resolveUrl(args.url),
                             "title:", loaded(resolveUrl(args.url)).title>>)>>,
                <<"page.goto", "page.title", "page.url">>)

\* What navigate(args) returns once ensureBrowser() has settled with page_
\* (a page, null, or a rejection): the try block's return, or the catch
\* block's.
navigateSettles(args, page_, ok) ==
  IF page_ = Threw
    THEN caughtWith("navigate", args, "browser, context or page not created",
                    "check if the url is correct and the server is running",
                    <<>>)
  ELSE IF page_ = NoHandle
    THEN caughtWith("navigate", args, "TypeError: cannot read properties of null",
                    "check if the url is correct and the server is running",
                    <<>>)
  ELSE IF ~ok
    THEN caughtWith("navigate", args, "page.goto failed",
                    "check if the url is correct and the server is running",
                    <<"page.goto">>)
  ELSE returned("navigate", args,
                <<textItem(<<"navigated to", resolveUrl(args.url),
                             "title:", loaded(resolveUrl(args.url)).title>>)>>,
                <<"page.goto", "page.title", "page.url">>)

\* navigate(args) from the resumption of its await to its return. The
\* engine rejects page.goto on a page that has been closed.
navigateResumes(ok) ==
  /\ pending # NoCall
  /\ pending.tool = "navigate"
  /\ epc[1] = "idle"
  /\ LET went == ok /\ eret[1] \in livePages IN
     /\ toolResult' = navigateSettles(pending.args, eret[1], went)
     /\ dom' = IF eret[1] \notin {Threw, NoHandle} /\ went
                 THEN loaded(resolveUrl(pending.args.url)) ELSE dom
  /\ pending' = NoCall
  /\ UNCHANGED <<sessionVars, engineVars, callVars, captureVars, artifactVars,
                 readVars>>

\* ---- get_network_requests, verify_no_errors

\* `new RegExp(pattern)` throws a SyntaxError for a pattern with a group
\* that is not closed (patterns are made of literal characters, `.`, `^`,
\* `$` and `(`).
unterminatedGroup(re) ==
  Cardinality({i \in 1..Len(re) : re[i] = "("})
    > Cardinality({i \in 1..Len(re) : re[i] = ")"})

\* array.slice(-n): the last n elements, and the whole array for n = 0.
sliceLast(array, n) ==
  IF n = 0 \/ n >= Len(array) THEN array
  ELSE SubSeq(array, Len(array) - n + 1, Len(array))

DefaultLimit == 20
NetworkToolArgs ==
  [urlPattern : {Absent, Some(<<>>), Some(<<"a", "$">>), Some(<<"(">>)},
   methods : {Absent}, statusCodes : {Absent},
   failed : {Absent}, limit : {0, 1, DefaultLimit}]

\* One line of the formatted list: method, url, `status: ..., duration: ...`.
formatRequest(req) ==
  [method |-> req.method, url |-> req.url,
   status |-> IF req.response # Absent THEN Some(req.response[1].status)
              ELSE Some("PENDING"),
   duration |-> IF req.duration # Absent /\ req.duration[1] # 0
                  THEN req.duration ELSE Some("N/A")]

\* What getNetworkRequests(args) of the tool registry returns, or what it
\* rejects with: the handler has no try block around the session manager's
\* read, which compiles the pattern.
getNetworkRequestsResponse(args) ==
  LET filter == [urlPattern |-> args.urlPattern, methods |-> args.methods,
                 statusCodes |-> args.statusCodes, failed |-> args.failed]
      limited == sliceLast(getNetworkRequests(filter), args.limit)
  IN IF /\ args.urlPattern # Absent
        /\ args.urlPattern[1] # <<>>
        /\ unterminatedGroup(args.urlPattern[1])
       THEN raised("get_network_requests", args, "SyntaxError: invalid regular expression: unterminated group",
                   <<"new RegExp">>)
     ELSE IF Len(limited) = 0
       THEN returned("get_network_requests", args,
              <<textItem(<<"no network requests matching filters">>)>>, <<>>)
     ELSE returned("get_network_requests", args,
            <<textItem(<<"network requests", Len(limited),
                         [i \in 1..Len(limited) |->
                            formatRequest(heap[limited[i]])]>>)>>,
            <<>>)

getNetworkRequestsTool(args) ==
  /\ toolResult' = getNetworkRequestsResponse(args)
  /\ UNCHANGED <<sessionVars, engineVars, callVars, captureVars, artifactVars,
                 readVars, dom, pending>>

VerifyNoErrorsArgs ==
  [since : {Absent},
   ignorePatterns : {Absent, Some(<<>>), Some(<< <<"A">> >>),
                     Some(<< <<"a">>, <<"(">> >>)}]

\* What verifyNoErrors(args) returns, or what it rejects with: the patterns
\* are compiled outside any try block, then the error entries that match
\* one of them are dropped.
verifyNoErrorsResponse(args) ==
  LET read == getConsoleLogs([types |-> Some(<<"error">>),
                              since |-> args.since, search |-> Absent])
      given == args.ignorePatterns # Absent /\ Len(args.ignorePatterns[1]) > 0
      patterns == args.ignorePatterns[1]
      errors == IF given
                  THEN SelectSeq(read,
                         LAMBDA e : ~\E i \in 1..Len(patterns) :
                                       regexTest(patterns[i], e.text))
                  ELSE read
  IN IF given /\ \E i \in 1..Len(patterns) : unterminatedGroup(patterns[i])
       THEN raised("verify_no_errors", args, "SyntaxError: invalid regular expression: unterminated group", <<"new RegExp">>)
     ELSE IF Len(errors) = 0
       THEN returned("verify_no_errors", args,
              <<textItem(<<"PASS", "no console errors detected">>)>>, <<>>)
     ELSE returned("verify_no_errors", args,
            <<textItem(<<"FAIL", Len(errors), "console error(s) detected",
                         [i \in 1..Len(slice(errors, ShownCap)) |->
                            substring(errors[i].text, LineCap)],
                         IF Len(errors) > ShownCap
                           THEN Len(errors) - ShownCap ELSE 0>>)>>,
            <<>>)

verifyNoErrorsTool(args) ==
  /\ toolResult' = verifyNoErrorsResponse(args)
  /\ UNCHANGED <<sessionVars, engineVars, callVars, captureVars, artifactVars,
                 readVars, dom, pending>>

\* ---- verify_request_succeeded

VerifyRequestArgs ==
  [urlPattern : {<<>>, <<"a", "$">>, <<"b">>, <<"(">>},
   expectedStatus : QueryStatuses]

\* What verifyRequestSucceeded(args) returns, or what it rejects with: the
\* session manager's read compiles the pattern and the handler has no try
\* block. The verdict is taken from the last entry the read returns.
verifyRequestSucceededResponse(args) ==
  LET requests == getNetworkRequests(
                    [urlPattern |-> Some(args.urlPattern), methods |-> Absent,
                     statusCodes |-> Absent, failed |-> Absent])
      latest == heap[requests[Len(requests)]]
  IN IF args.urlPattern # <<>> /\ unterminatedGroup(args.urlPattern)
       THEN raised("verify_request_succeeded", args,
                   "SyntaxError: invalid regular expression: unterminated group",
                   <<"new RegExp">>)
     ELSE IF Len(requests) = 0
       THEN returned("verify_request_succeeded", args,
              <<textItem(<<"FAIL", "no requests matching", args.urlPattern,
                           "suggestion:">>)>>, <<>>)
     ELSE IF latest.response = Absent
       THEN returned("verify_request_succeeded", args,
              <<textItem(<<"PENDING", latest.url>>)>>, <<>>)
     ELSE IF latest.response[1].status = args.expectedStatus
       THEN returned("verify_request_succeeded", args,
              <<textItem(<<"PASS", latest.url, latest.response[1].status>>)>>,
              <<>>)
     ELSE returned("verify_request_succeeded", args,
            <<textItem(<<"FAIL", latest.url, latest.response[1].status,
                         "expected", args.expectedStatus>>)>>, <<>>)

verifyRequestSucceededTool(args) ==
  /\ toolResult' = verifyRequestSucceededResponse(args)
  /\ UNCHANGED <<sessionVars, engineVars, callVars, captureVars, artifactVars,
                 readVars, dom, pending>>

\* verify_request_succeeded over bounded histories, patterns and expected
\* statuses.
VerifyNext ==
  \E args \in VerifyRequestArgs : verifyRequestSucceededTool(args)

VerifySpec == NetworkQueryInit /\ [][VerifyNext]_vars

\* Tool operations from construction on: navigate creates the session (each
\* step of the creation may fail), the page's events are captured, and the
\* two reads that take patterns are called at any time.
ToolNext ==
  \/ \E args \in NavigateArgs : navigateCall(args)
  \/ \E ok \in BOOLEAN : launchDone(1, ok)
  \/ \E ok \in BOOLEAN : newContextDone(1, ok)
  \/ \E ok \in BOOLEAN : newPageDone(1, ok)
  \/ \E ok \in BOOLEAN : navigateResumes(ok)
  \/ \E text \in Texts : consoleEvent("error", text)
  \/ requestEvent(<<"/", "a">>, <<"G", "E", "T">>)
  \/ \E args \in NetworkToolArgs : getNetworkRequestsTool(args)
  \/ \E args \in VerifyNoErrorsArgs : verifyNoErrorsTool(args)

ToolSpec == SessionInit /\ [][ToolNext]_vars

\* =================================================================== page

\* The fixture page of the integration tests: a button `#login-btn` and a
\* control `#show-content` that are visible from the start, and an element
\* `#dynamic-content` that is hidden until the control is clicked.
fixtureText(id) == IF id = "login-btn" THEN <<"a">> ELSE <<"A", "b">>
fixtureAttribute(id, name) == IF name = "id" THEN Some(id) ELSE Absent
\* The page's click listeners: the show control reveals the hidden element.
onClick(document, sel) ==
  [document EXCEPT
     !.shown = IF sel = "#show-content" THEN @ \cup {"#dynamic-content"} ELSE @,
     !.clicked = Append(@, sel)]

\* ---- the engine's view of the document

\* document.querySelector for the id selectors used here; the page shows
\* no element before the first navigation.
querySelector(document, sel) ==
  IF document = NoDocument THEN Absent
  ELSE IF sel = "#login-btn" THEN Some("login-btn")
  ELSE IF sel = "#show-content" THEN Some("show-content")
  ELSE IF sel = "#dynamic-content" THEN Some("dynamic-content")
  ELSE Absent
PageSelectors == {"#login-btn", "#show-content", "#dynamic-content", "#none"}
\* locator.isVisible(): the selector resolves to an element that is shown;
\* locator.isHidden(): it resolves to none, or to one that is not shown;
\* locator.count(): how many elements it resolves to.
isVisible(document, sel) ==
  querySelector(document, sel) # Absent /\ sel \in document.shown
isHidden(document, sel) ==
  querySelector(document, sel) = Absent \/ sel \notin document.shown
count(document, sel) == IF querySelector(document, sel) # Absent THEN 1 ELSE 0

\* ---- click

ClickTimeout == 5000
ClickArgs ==
  [selector : PageSelectors, button : {"left"}, clickCount : {1},
   timeout : {ClickTimeout}]

\* click(args) on a created session, where ensureBrowser() returns the page
\* at once: page.click waits for the element to be visible, clicks it, and
\* the page's listeners run.
click(args, ok) ==
  /\ page # NoHandle
  /\ dom # NoDocument => Len(dom.clicked) < MaxClicks
  /\ IF ~ok
       THEN /\ toolResult' =
                 caughtWith("click", args, "target page, context or browser has been closed",
                   "check if the selector is correct or use wait_for_element first",
                   <<"page.click">>)
            /\ UNCHANGED dom
     ELSE IF ~isVisible(dom, args.selector)
       THEN /\ toolResult' =
                 caughtWith("click", args, "timeout exceeded",
                   "check if the selector is correct or use wait_for_element first",
                   <<"page.click">>)
            /\ UNCHANGED dom
     ELSE /\ toolResult' = returned("click", args,
                             <<textItem(<<"clicked", args.selector>>)>>,
                             <<"page.click">>)
          /\ dom' = onClick(dom, args.selector)
  /\ UNCHANGED <<sessionVars, engineVars, callVars, captureVars, artifactVars,
                 readVars, pending>>

\* ---- verify_element

VerifyElementArgs ==
  [selector : PageSelectors,
   state : {"visible", "hidden", "exists", "not-exists"},
   text : {Absent, Some(<<"a">>)},
   attribute : {Absent, Some([name |-> "id", value |-> Some("login-btn")]),
                Some([name |-> "href", value |-> Absent])}]

\* Mutant of stateResult: an element that exists counts as visible.
stateResultOfExisting(args, document) ==
  LET found == count(document, args.selector) > 0 IN
  IF args.state = "visible"
    THEN [pass |-> found,
          message |-> <<IF found THEN "element is visible"
                        ELSE "element is NOT visible">>]
  ELSE IF args.state = "hidden"
    THEN [pass |-> ~found,
          message |-> <<IF ~found THEN "element is hidden"
                        ELSE "element is NOT hidden">>]
  ELSE IF args.state = "exists"
    THEN [pass |-> found,
          message |-> IF found
                        THEN <<"element exists", count(document, args.selector),
                               "found">>
                        ELSE <<"element does NOT exist">>]
  ELSE [pass |-> ~found,
        message |-> IF ~found
                      THEN <<"element does not exist (as expected)">>
                      ELSE <<"element unexpectedly exists",
                             count(document, args.selector), "found">>]

\* The switch on args.state.
stateResult(args, document) ==
  IF args.state = "visible"
    THEN [pass |-> isVisible(document, args.selector),
          message |-> <<IF isVisible(document, args.selector)
                          THEN "element is visible"
                          ELSE "element is NOT visible">>]
  ELSE IF args.state = "hidden"
    THEN [pass |-> isHidden(document, args.selector),
          message |-> <<IF isHidden(document, args.selector)
                          THEN "element is hidden"
                          ELSE "element is NOT hidden">>]
  ELSE IF args.state = "exists"
    THEN [pass |-> count(document, args.selector) > 0,
          message |-> IF count(document, args.selector) > 0
                        THEN <<"element exists", count(document, args.selector),
                               "found">>
                        ELSE <<"element does NOT exist">>]
  ELSE [pass |-> count(document, args.selector) = 0,
        message |-> IF count(document, args.selector) = 0
                      THEN <<"element does not exist (as expected)">>
                      ELSE <<"element unexpectedly exists",
                             count(document, args.selector), "found">>]

\* `if (args.text && stateResult.pass)`: the element's text is read and
\* searched for the expected text.
textResult(args, document, result) ==
  LET actualText == fixtureText(querySelector(document, args.selector)[1])
      textMatch == includes(actualText, args.text[1])
  IN [pass |-> textMatch,
      message |-> result.message \o
                    (IF textMatch THEN <<"and contains expected text">>
                     ELSE <<"but does NOT contain expected text",
                            args.text[1]>>)]

\* `if (args.attribute && stateResult.pass)`: the attribute is read and
\* compared with the expected value, or tested for presence.
attributeResult(args, document, result) ==
  LET attribute == args.attribute[1]
      attrValue == fixtureAttribute(querySelector(document, args.selector)[1],
                                    attribute.name)
      attrMatch == attrValue = attribute.value
      hasAttr == attrValue # Absent
  IN IF attribute.value # Absent
       THEN [pass |-> attrMatch,
             message |-> result.message \o
                           (IF attrMatch
                              THEN <<"and has", attribute.name,
                                     attribute.value[1]>>
                              ELSE <<"but", attribute.name, "is", attrValue,
                                     "expected", attribute.value[1]>>)]
       ELSE [pass |-> hasAttr,
             message |-> result.message \o
                           (IF hasAttr
                              THEN <<"and has attribute", attribute.name>>
                              ELSE <<"but does NOT have attribute",
                                     attribute.name>>)]

\* What verifyElement(args) returns for the document the page shows.
verifyElementResponse(args, document, ok) ==
  LET byState == stateResult(args, document)
      readsText == args.text # Absent /\ args.text[1] # <<>> /\ byState.pass
      byText == IF readsText THEN textResult(args, document, byState)
                ELSE byState
      readsAttribute == args.attribute # Absent /\ byText.pass
      final == IF readsAttribute THEN attributeResult(args, document, byText)
               ELSE byText
  IN IF ~ok
       THEN caughtWith("verify_element", args, "target page, context or browser has been closed",
                       "check if the selector is correct", <<>>)
     ELSE IF (readsText \/ readsAttribute) /\ querySelector(document, args.selector) = Absent
       THEN caughtWith("verify_element", args, "timeout exceeded",
                       "check if the selector is correct", <<>>)
     ELSE returned("verify_element", args,
            <<textItem(<<IF final.pass THEN "PASS" ELSE "FAIL">>
                       \o final.message)>>, <<>>)

\* verifyElement(args) on a created session.
verifyElement(args, ok) ==
  /\ page # NoHandle
  /\ toolResult' = verifyElementResponse(args, dom, ok)
  /\ UNCHANGED <<sessionVars, engineVars, callVars, captureVars, artifactVars,
                 readVars, dom, pending>>

\* The page on a created session: navigations, clicks and verifications.
PageNext ==
  \/ \E args \in NavigateArgs : navigateCall(args)
  \/ \E ok \in BOOLEAN : navigateResumes(ok)
  \/ \E args \in ClickArgs, ok \in BOOLEAN : click(args, ok)
  \/ \E args \in VerifyElementArgs, ok \in BOOLEAN : verifyElement(args, ok)

PageSpec == ConsoleInit /\ [][PageNext]_vars

\* ------------------------------------------------- tools/call dispatch

\* JSON values as a tools/call request carries them.
jsonString(s) == [type |-> "string", value |-> s]
jsonNumber(n) == [type |-> "number", value |-> n]

\* Keys of the `tools` registry that the model carries a handler for.
registered == {"navigate", "get_network_requests"}
\* Keys that `tools[name]` finds on Object.prototype: `tools` is a plain
\* object, so the lookup is truthy and the value has no `schema`.
inherited == {"constructor"}
\* Names a request may carry.
ToolNames == registered \cup inherited \cup {"no_such_tool"}

\* `request.params.arguments`: left out, or an object (keys no schema of
\* the called tool knows are stripped by z.object).
RawArguments ==
  {Absent} \cup
  {Some(a) : a \in [url : {Absent, Some(jsonString(<<"a">>)),
                           Some(jsonNumber(1))},
                    urlPattern : {Absent, Some(jsonString(<<"(">>))},
                    limit : {Absent, Some(jsonString(<<"1">>))}]}

\* navigateSchema.parse(args): the validated arguments, or Absent for a
\* thrown ZodError. url is a required string; waitUntil defaults to 'load'.
parseNavigate(raw) ==
  IF raw = Absent \/ raw[1].url = Absent \/ raw[1].url[1].type # "string"
    THEN Absent
  ELSE Some([url |-> raw[1].url[1].value, waitUntil |-> "load"])

\* getNetworkRequestsSchema.parse(args): urlPattern an optional string,
\* limit an optional number with default 20.
parseNetworkRequests(raw) ==
  IF \/ raw = Absent
     \/ (raw[1].urlPattern # Absent /\ raw[1].urlPattern[1].type # "string")
     \/ (raw[1].limit # Absent /\ raw[1].limit[1].type # "number")
    THEN Absent
  ELSE Some([urlPattern |-> IF raw[1].urlPattern = Absent THEN Absent
                            ELSE Some(raw[1].urlPattern[1].value),
             methods |-> Absent, statusCodes |-> Absent, failed |-> Absent,
             limit |-> IF raw[1].limit = Absent THEN DefaultLimit
                       ELSE raw[1].limit[1].value])

\* `tool.schema.parse(args)` for a registered tool.
schemaParse(name, raw) ==
  IF name = "navigate" THEN parseNavigate(raw) ELSE parseNetworkRequests(raw)

callRequest(name, raw) == [name |-> name, arguments |-> raw]

\* Mutant of callToolSettles: no catch block around the handler.
callToolSettlesUncaught(name, raw, response) ==
  [response EXCEPT !.tool = "tools/call", !.args = callRequest(name, raw)]

\* `try { ...; return await tool.handler(validated) } catch (err) {...}`:
\* what the handler returned is returned as it is; what it rejected with
\* becomes one `error:` text item.
callToolSettles(name, raw, response) ==
  IF response.raised
    THEN caught("tools/call", callRequest(name, raw),
                response.content[1].text[1], response.calls)
  ELSE [response EXCEPT !.tool = "tools/call",
                        !.args = callRequest(name, raw)]

\* The CallTool request handler up to its return or, for navigate, up to
\* the handler's await of ensureBrowser().
callTool(name, raw) ==
  IF name \notin registered \cup inherited
    THEN /\ toolResult' =
              returned("tools/call", callRequest(name, raw),
                       <<textItem(<<"error:", "unknown tool", name>>)>>, <<>>)
         /\ UNCHANGED <<sessionVars, engineVars, callVars, captureVars,
                        artifactVars, readVars, dom, pending>>
  ELSE IF name \in inherited
    THEN /\ toolResult' =
              caught("tools/call", callRequest(name, raw),
                     "TypeError: cannot read properties of undefined", <<>>)
         /\ UNCHANGED <<sessionVars, engineVars, callVars, captureVars,
                        artifactVars, readVars, dom, pending>>
  ELSE IF schemaParse(name, raw) = Absent
    THEN /\ toolResult' =
              caught("tools/call", callRequest(name, raw), "ZodError", <<>>)
         /\ UNCHANGED <<sessionVars, engineVars, callVars, captureVars,
                        artifactVars, readVars, dom, pending>>
  ELSE IF name = "navigate"
    THEN /\ pending = NoCall
         /\ ensureBrowserEntry(1)
         /\ pending' = [tool |-> "tools/call",
                        args |-> schemaParse(name, raw)[1],
                        request |-> callRequest(name, raw)]
         /\ UNCHANGED <<toolResult, dom>>
  ELSE /\ toolResult' =
            callToolSettles(name, raw,
              getNetworkRequestsResponse(schemaParse(name, raw)[1]))
       /\ UNCHANGED <<sessionVars, engineVars, callVars, captureVars,
                      artifactVars, readVars, dom, pending>>

\* The CallTool request handler resumes when the navigate handler it awaits
\* settles.
callToolResumes(ok) ==
  /\ pending # NoCall
  /\ pending.tool = "tools/call"
  /\ epc[1] = "idle"
  /\ LET went == ok /\ eret[1] \in livePages IN
     /\ toolResult' =
          callToolSettles(pending.request.name, pending.request.arguments,
                          navigateSettles(pending.args, eret[1], went))
     /\ dom' = IF eret[1] \notin {Threw, NoHandle} /\ went
                 THEN loaded(resolveUrl(pending.args.url)) ELSE dom
  /\ pending' = NoCall
  /\ UNCHANGED <<sessionVars, engineVars, callVars, captureVars, artifactVars,
                 readVars>>

\* Tool calls through the dispatch handler from construction on, the
\* session's creation (each step may fail) and the page's requests.
DispatchNext ==
  \/ \E name \in ToolNames, raw \in RawArguments : callTool(name, raw)
  \/ \E ok \in BOOLEAN : launchDone(1, ok)
  \/ \E ok \in BOOLEAN : newContextDone(1, ok)
  \/ \E ok \in BOOLEAN : newPageDone(1, ok)
  \/ \E ok \in BOOLEAN : callToolResumes(ok)
  \/ requestEvent(<<"/", "a">>, <<"G", "E", "T">>)

DispatchSpec == SessionInit /\ [][DispatchNext]_vars

\* --------------------------------------------- capture across close()

\* A created session whose page logs and requests and whose caller stores
\* artifacts, closes the session (each close may fail) and creates it again.
LifecycleNext ==
  \/ ensureBrowserCall(1)
  \/ launchDone(1, TRUE)
  \/ newContextDone(1, TRUE)
  \/ newPageDone(1, TRUE)
  \/ closeCall
  \/ \E ok \in BOOLEAN : closePageDone(ok)
  \/ \E ok \in BOOLEAN : closeContextDone(ok)
  \/ \E ok \in BOOLEAN : closeBrowserDone(ok)
  \/ consoleEvent("log", <<"a">>)
  \/ requestEvent(<<"/", "a">>, <<"G", "E", "T">>)
  \/ storeScreenshot("home", "png1")
  \/ storeDomSnapshot("home", "<p>")

LifecycleSpec == ConsoleInit /\ [][LifecycleNext]_vars

\* ================================================================= claims

\* Positions of entry object e in the network history.
positionsOf(e) == {i \in 1..Len(networkRequests) : networkRequests[i] = e}

\* History positions whose entry has request r's URL and method and no
\* response, read off the entries' fields.
pendingLike(r) ==
  {i \in 1..Len(networkRequests) :
     /\ heap[networkRequests[i]].url = heap[r].url
     /\ heap[networkRequests[i]].method = heap[r].method
     /\ heap[networkRequests[i]].response = <<>>}

\* C1 (ConsoleSpec): after N console events with no clear in between,
\* getConsoleLogs() with no filter returns exactly N entries, the i-th one
\* carrying the kind and text of the i-th event delivered.
C1_ConsoleLogsInDeliveryOrder ==
  LET got == getConsoleLogs(NoFilter)
  IN /\ Len(got) = Len(emitted)
     /\ \A i \in 1..Len(emitted) :
          got[i].type = emitted[i].type /\ got[i].text = emitted[i].text

\* C1 witness: two different messages have been delivered and are read back.
C1_Witness ==
  /\ Len(emitted) = 2
  /\ emitted[1] # emitted[2]
  /\ Len(getConsoleLogs(NoFilter)) = 2

\* C2 (Spec): when a response arrives and two or more history entries have
\* its request's URL and method and no response, the listener takes the one
\* appended earliest.
C2_OldestPendingSelected ==
  [][\A l \in listeners' \ listeners :
       Cardinality(pendingLike(l.req)) >= 2 =>
         \E i \in pendingLike(l.req) :
           /\ networkRequests[i] = l.entry
           /\ \A j \in pendingLike(l.req) : i <= j]_vars

\* C2 witness: a listener is suspended holding an entry older than the entry
\* of the request its response answers, which is still pending.
C2_Witness ==
  \E l \in listeners :
    /\ l.entry # l.req
    /\ heap[l.req].response = <<>>
    /\ \E i \in positionsOf(l.entry), j \in positionsOf(l.req) : i < j

\* C3 as stated (Spec): the entry a response fills is the most recently
\* appended entry with matching URL and method and no response.
C3_MostRecentPendingFilled ==
  [][\A l \in listeners' \ listeners :
       \E i \in pendingLike(l.req) :
         /\ networkRequests[i] = l.entry
         /\ \A j \in pendingLike(l.req) : i >= j]_vars

\* C3 amended (Spec): the entry whose duration is set when a response
\* arrives is the earliest appended entry with matching URL and method and
\* no response at that moment, and the entry whose response fields are set
\* when the body read ends is the entry that was looked up then.
C3_OldestPendingFilled ==
  [][\A e \in DOMAIN heap :
       /\ heap'[e].duration # heap[e].duration =>
            \E l \in listeners' \ listeners :
              /\ l.entry = e
              /\ \E i \in pendingLike(l.req) :
                   /\ networkRequests[i] = e
                   /\ \A j \in pendingLike(l.req) : i <= j
       /\ heap'[e].response # heap[e].response =>
            \E l \in listeners \ listeners' : l.entry = e]_vars

\* C3 witness: an entry holds the response to a request appended after it.
C3_Witness ==
  \E e \in DOMAIN heap :
    /\ heap[e].response # <<>>
    /\ heap[e].duration # <<>>
    /\ heap[e].response[1].of # e
    /\ \E i \in positionsOf(e), j \in positionsOf(heap[e].response[1].of) : i < j

\* C4 as stated (Spec): once an entry's response is present, no step assigns
\* or changes it.
C4_ResponseNeverOverwritten ==
  [][\A e \in DOMAIN heap :
       heap[e].response # <<>> => heap'[e].response = heap[e].response]_vars

\* C5 (Spec): when the body read of a response that found an entry ends, that
\* entry has its response present and a duration >= 0; a duration, once set
\* on arrival, is >= 0 (the clock never goes back).
C5_MatchedEntryFilled ==
  [][/\ \A l \in listeners \ listeners' :
          /\ heap'[l.entry].response # <<>>
          /\ heap'[l.entry].duration # <<>>
          /\ heap'[l.entry].duration[1] >= 0
     /\ \A l \in listeners' \ listeners :
          /\ heap'[l.entry].duration # <<>>
          /\ heap'[l.entry].duration[1] >= 0]_vars

\* C5 witness: an entry has its response, and a duration measured over a
\* clock that advanced between request and response.
C5_Witness ==
  \E e \in DOMAIN heap :
    /\ heap[e].response # <<>>
    /\ heap[e].duration # <<>>
    /\ heap[e].duration[1] > 0

\* C6 (Spec): a response whose request's URL and method match no entry
\* without a response changes neither history: no entry is added, none is
\* changed, and no listener is left waiting.
C6_OrphanResponseChangesNothing ==
  [][\A r \in wire \ wire' :
       pendingLike(r) = {} =>
         /\ consoleLogs' = consoleLogs
         /\ networkRequests' = networkRequests
         /\ heap' = heap
         /\ listeners' = listeners]_vars

\* C6 witness: a response has been delivered and no entry was ever touched by
\* a response listener (entries are never dropped from the heap), after a
\* clear that removed its request's entry.
C6_Witness ==
  /\ \E r \in DOMAIN heap : r \notin wire /\ positionsOf(r) = {}
  /\ listeners = {}
  /\ consoleLogs # <<>>
  /\ \A e \in DOMAIN heap : heap[e].duration = <<>> /\ heap[e].response = <<>>

\* C7 as stated (SessionSpec): once an ensureBrowser() that no close()
\* overlapped has returned a page and no close() has run since, an
\* ensureBrowser() called later returns that same page and starts no launch.
C7_EnsureBrowserIdempotent ==
  [][\A c \in Callers :
       (firstPage # NoHandle /\ cpc = "idle" /\ ensureBrowserCall(c)) =>
         (eret'[c] = firstPage /\ epc'[c] = "idle")]_vars

\* C8 as stated (SessionSpec): at most one browser, one context and one page
\* exist that have been created and not closed.
C8_AtMostOneOfEach ==
  /\ Cardinality(liveBrowsers) <= 1
  /\ Cardinality(liveContexts) <= 1
  /\ Cardinality(livePages) <= 1

\* C9 as stated (SessionSpec): if the page handle is present, so are the
\* context handle and the browser handle.
C9_PageImpliesContextAndBrowser ==
  page # NoHandle => (context # NoHandle /\ browser # NoHandle)

\* C10 as stated (SessionSpec): whenever ensureBrowser() returns normally,
\* the value returned is a present page, equal to the manager's page handle.
C10_ReturnsPresentPage ==
  [][\A c \in Callers :
       ((ensureBrowserCall(c) \/ \E ok \in BOOLEAN : newPageDone(c, ok))
          /\ epc'[c] = "idle" /\ eret'[c] \notin {Threw, NoResult, Overlapped}) =>
         (eret'[c] # NoHandle /\ eret'[c] = page')]_vars

\* close() returns in this step: its last await resumes, or it is called with
\* no handle present and returns at once.
closeReturns ==
  \/ cpc # "idle" /\ cpc' = "idle"
  \/ closeCall /\ cpc' = "idle"

\* C11 as stated (SessionSpec): when close() returns, the browser, context
\* and page handles are all absent; and an ensureBrowser() called with the
\* three handles absent starts a launch of a browser never created before,
\* whose context and page, when the call returns a page, are new as well,
\* have the listeners attached, and are not a page close() has closed.
C11_FreshChainAfterClose ==
  [][/\ closeReturns =>
          (browser' = NoHandle /\ context' = NoHandle /\ page' = NoHandle)
     /\ \A c \in Callers :
          /\ (browser = NoHandle /\ ensureBrowserCall(c)) =>
                /\ epc'[c] = "launch"
                /\ eown'[c] \notin liveBrowsers \cup liveContexts \cup livePages
                /\ eown'[c] >= nextChain
          /\ (newPageDone(c, TRUE) /\ eret'[c] >= 1) =>
                /\ eret'[c] = eown[c]
                /\ eret'[c] \notin livePages
                /\ eret'[c] \in livePages' \cap attached']_vars

\* C12 as stated (SessionSpec): every teardown step of close(), failed or
\* not, goes on to the next step whose handle is present (context, then
\* browser), close() returning when there is none; and when close() returns
\* the three handles are absent.
C12_CloseNeverFails ==
  [][/\ \A ok \in BOOLEAN :
          /\ closePageDone(ok) =>
                /\ page' = NoHandle
                /\ context # NoHandle => (cpc' = "context" /\ ctarget' = context)
                /\ (context = NoHandle /\ browser # NoHandle) =>
                     (cpc' = "browser" /\ ctarget' = browser)
                /\ (context = NoHandle /\ browser = NoHandle) => cpc' = "idle"
          /\ closeContextDone(ok) =>
                /\ context' = NoHandle
                /\ browser # NoHandle => (cpc' = "browser" /\ ctarget' = browser)
                /\ browser = NoHandle => cpc' = "idle"
          /\ closeBrowserDone(ok) => (browser' = NoHandle /\ cpc' = "idle")
     /\ (cpc # "idle" /\ cpc' = "idle") =>
          (page' = NoHandle /\ context' = NoHandle /\ browser' = NoHandle)]_vars

\* Every console read, and every network read, returns an empty list: with
\* no filter, and with every filter.
consoleReadsEmpty ==
  /\ getConsoleLogs(NoFilter) = <<>>
  /\ \A f \in ConsoleFilters : getConsoleLogs(f) = <<>>
networkReadsEmpty ==
  /\ getNetworkRequests(NoNetworkFilter) = <<>>
  /\ \A f \in NetworkFilters : getNetworkRequests(f) = <<>>

\* A console event, and a request event, is delivered in this step.
consoleDelivered == \E kind \in PageKinds, text \in Texts : consoleEvent(kind, text)
requestDelivered == \E q \in Requests : requestEvent(q[1], q[2])

isPrefix(s, t) == Len(s) <= Len(t) /\ SubSeq(t, 1, Len(s)) = s

\* C14 (HistorySpec): every step other than clearConsoleLogs() and
\* clearNetworkRequests() leaves each history a prefix of what it is after
\* the step: the entries already there stay, in place and in order (the
\* network history holds the entry objects, which the response listener
\* fills in place).
C14_AppendOnlyBetweenClears ==
  [][~(clearConsoleLogs \/ clearNetworkRequests) =>
       /\ isPrefix(consoleLogs, consoleLogs')
       /\ isPrefix(networkRequests, networkRequests')]_vars

\* C14 witness: both histories hold two entries, and a response listener has
\* filled the first network entry after the second was appended.
C14_Witness ==
  /\ Len(consoleLogs) = 2
  /\ Len(networkRequests) = 2
  /\ heap[networkRequests[1]].response # Absent
  /\ heap[networkRequests[1]].duration # Absent
  /\ heap[networkRequests[1]].response[1].of = networkRequests[2]

\* The filter with failed = true and no other dimension.
FailedOnly == [NoNetworkFilter EXCEPT !.failed = Some(TRUE)]

\* C15 (NetworkQuerySpec): for every network history, the array
\* getNetworkRequests returns for failed = true and no other dimension holds
\* exactly the entries with no response or a response status >= 400, in
\* history order.
C15_FailedOnlyExact ==
  getNetworkRequests(FailedOnly) =
    SelectSeq(networkRequests,
              LAMBDA r : \/ heap[r].response = Absent
                         \/ heap[r].response[1].status >= 400)

\* C15 witness: the array held is what the failed-only read returns for a
\* history of a status-200 entry followed by a status-400 entry: the second
\* entry alone.
C15_Witness ==
  /\ Len(networkRequests) = 2
  /\ heap[networkRequests[1]].response # Absent
  /\ heap[networkRequests[1]].response[1].status = 200
  /\ heap[networkRequests[2]].response # Absent
  /\ heap[networkRequests[2]].response[1].status = 400
  /\ networkRead = <<networkRequests[2]>>
  /\ networkRead = getNetworkRequests(FailedOnly)

\* Two characters, two strings, are equal ignoring case; sub occurs in str
\* ignoring case.
sameLetter(x, y) == upperChar(x) = upperChar(y)
equalIgnoringCase(a, b) ==
  Len(a) = Len(b) /\ \A k \in 1..Len(a) : sameLetter(a[k], b[k])
containsIgnoringCase(str, sub) ==
  \E off \in 0..Len(str) :
    /\ off + Len(sub) <= Len(str)
    /\ \A k \in 1..Len(sub) : sameLetter(str[off + k], sub[k])

C17_EveryProvidedDimension ==
  \A f \in NetworkFilters :
    getNetworkRequests(f) =
      SelectSeq(networkRequests,
                LAMBDA r :
                  /\ f.urlPattern # Absent =>
                       regexTest(f.urlPattern[1], heap[r].url)
                  /\ f.methods # Absent =>
                       \E k \in 1..Len(f.methods[1]) :
                         equalIgnoringCase(f.methods[1][k], heap[r].method)
                  /\ f.statusCodes # Absent =>
                       /\ heap[r].response # Absent
                       /\ \E k \in 1..Len(f.statusCodes[1]) :
                            f.statusCodes[1][k] = heap[r].response[1].status
                  /\ f.failed = Some(TRUE) =>
                       \/ heap[r].response = Absent
                       \/ heap[r].response[1].status >= 400)

\* The caller changes a value a read returned: it pushes onto or pops from
\* the array, or assigns a field of one of its elements.
callerChanges ==
  \/ \E i \in 1..Len(consoleRead) : callerPushesLog(i)
  \/ callerPopsLog
  \/ \E i \in 1..Len(consoleRead), text \in Texts : callerSetsLogText(i, text)
  \/ \E i \in 1..Len(networkRead) : callerPushesRequest(i)
  \/ callerPopsRequest
  \/ \E i \in 1..Len(networkRead), u \in QueryUrls : callerSetsRequestUrl(i, u)

\* The entries, with their field values, that getNetworkRequests(f) returns.
networkEntries(f) ==
  LET got == getNetworkRequests(f) IN [i \in 1..Len(got) |-> heap[got[i]]]

\* C18 as stated (NetworkQuerySpec): whatever change a caller makes to a
\* value a read returned, every read returns afterwards the entries, with
\* the field values, it returned before the change.
C18_ReadsUnchangedByCaller ==
  [][callerChanges =>
       /\ \A f \in ConsoleFilters : getConsoleLogs(f)' = getConsoleLogs(f)
       /\ \A f \in NetworkFilters : networkEntries(f)' = networkEntries(f)]_vars

\* Positions of the store calls of a kind under a name, and the payload of
\* the last of them, absent if there is none.
storesOf(kind, name) ==
  {i \in 1..Len(stored) : stored[i].kind = kind /\ stored[i].name = name}
lastStored(kind, name) ==
  IF storesOf(kind, name) = {} THEN Absent
  ELSE Some(stored[CHOOSE i \in storesOf(kind, name) :
                     \A j \in storesOf(kind, name) : j <= i].payload)

\* C19 (ArtifactSpec): after any sequence of store calls getScreenshot(name)
\* and getDomSnapshot(name) return the payload of the last store of their
\* kind under that name, and undefined if there was none; a store changes
\* what no other name, and no name of the other kind, returns.
C19_GetReturnsLastStored ==
  [][/\ \A name \in Names :
          /\ getScreenshot(name)' = lastStored("screenshot", name)'
          /\ getDomSnapshot(name)' = lastStored("dom", name)'
     /\ \A name \in Names, other \in Names :
          /\ (\E buffer \in Buffers : storeScreenshot(name, buffer)) =>
                /\ getDomSnapshot(other)' = getDomSnapshot(other)
                /\ other # name => getScreenshot(other)' = getScreenshot(other)
          /\ (\E html \in Htmls : storeDomSnapshot(name, html)) =>
                /\ getScreenshot(other)' = getScreenshot(other)
                /\ other # name => getDomSnapshot(other)' = getDomSnapshot(other)]_vars

\* C19 witness: a screenshot name has been stored twice with different
\* payloads and returns the second, the same name holds a DOM snapshot, and
\* the other name returns undefined for both kinds.
C19_Witness ==
  \E name \in Names, other \in Names :
    /\ Cardinality(storesOf("screenshot", name)) = 2
    /\ \E i \in storesOf("screenshot", name), j \in storesOf("screenshot", name) :
         i < j /\ stored[i].payload # stored[j].payload
                /\ getScreenshot(name) = Some(stored[j].payload)
    /\ getDomSnapshot(name) # Absent
    /\ other # name
    /\ getScreenshot(other) = Absent /\ getDomSnapshot(other) = Absent

\* The elements of a list, and a list without repetition.
elements(list) == {list[i] : i \in 1..Len(list)}
eachOnce(list) ==
  \A i \in 1..Len(list), j \in 1..Len(list) : list[i] = list[j] => i = j

\* C20 (ArtifactSpec): after any sequence of store calls listScreenshots()
\* returns, each once, exactly the names a screenshot has been stored under,
\* and listDomSnapshots() those a DOM snapshot has been stored under; a
\* step that stores no screenshot leaves the list listScreenshots() returns
\* as it is, order included, and likewise for DOM snapshots.
C20_ListsStoredNames ==
  [][/\ eachOnce(listScreenshots') /\ eachOnce(listDomSnapshots')
     /\ elements(listScreenshots') =
          {name \in Names : storesOf("screenshot", name)' # {}}
     /\ elements(listDomSnapshots') =
          {name \in Names : storesOf("dom", name)' # {}}
     /\ (\E name \in Names, html \in Htmls : storeDomSnapshot(name, html)) =>
          listScreenshots' = listScreenshots
     /\ (\E name \in Names, buffer \in Buffers : storeScreenshot(name, buffer)) =>
          listDomSnapshots' = listDomSnapshots]_vars

\* C20 witness: both names hold a screenshot, the first stored one has been
\* overwritten since, and no DOM snapshot is stored.
C20_Witness ==
  /\ Len(stored) = 3
  /\ stored[1].name # stored[2].name
  /\ stored[3].name = stored[1].name /\ stored[3].payload # stored[1].payload
  /\ \A i \in 1..3 : stored[i].kind = "screenshot"
  /\ listScreenshots = <<stored[1].name, stored[2].name>>
  /\ listDomSnapshots = <<>>

\* The screenshots the store resolves the two names of args to, when both
\* are stored and are images.
bothImages(args) ==
  /\ getScreenshot(args.baseline) # Absent
  /\ getScreenshot(args.current) # Absent
  /\ getScreenshot(args.baseline)[1].valid
  /\ getScreenshot(args.current)[1].valid
\* The only content item of a response is a text made of these pieces first.
onlyText(response, pieces) ==
  /\ Len(response.content) = 1
  /\ response.content[1].type = "text"
  /\ Len(response.content[1].text) >= Len(pieces)
  /\ SubSeq(response.content[1].text, 1, Len(pieces)) = pieces

\* This step is a visual_diff call, with the arguments toolResult'.args.
visualDiffed ==
  /\ toolResult'.tool = "visual_diff"
  /\ stored' = stored
  /\ visualDiff(toolResult'.args)

\* C21 (VisualSpec): visual_diff answers `error: baseline screenshot <name>
\* not found` with the baseline name when no screenshot was stored under it,
\* and `error: current screenshot <name> not found` with the current name
\* when the baseline was stored and the current was not; in both cases it
\* makes no decoding and no comparing call and leaves the store as it was.
C21_NotFoundNamesTheMissing ==
  [][visualDiffed =>
       LET args == toolResult'.args IN
       /\ storesOf("screenshot", args.baseline) = {} =>
            /\ onlyText(toolResult', <<"error:", "baseline screenshot",
                                       args.baseline, "not found">>)
            /\ toolResult'.calls = <<>>
            /\ ~toolResult'.raised
            /\ screenshots' = screenshots /\ domSnapshots' = domSnapshots
       /\ (/\ storesOf("screenshot", args.baseline) # {}
           /\ storesOf("screenshot", args.current) = {}) =>
            /\ onlyText(toolResult', <<"error:", "current screenshot",
                                       args.current, "not found">>)
            /\ toolResult'.calls = <<>>
            /\ ~toolResult'.raised
            /\ screenshots' = screenshots /\ domSnapshots' = domSnapshots]_vars

\* C21 witness: visual_diff has answered that the current screenshot is not
\* found, its baseline being stored.
C21_Witness ==
  /\ toolResult.tool = "visual_diff"
  /\ storesOf("screenshot", toolResult.args.baseline) # {}
  /\ storesOf("screenshot", toolResult.args.current) = {}
  /\ onlyText(toolResult, <<"error:", "current screenshot",
                            toolResult.args.current, "not found">>)

\* C22 (VisualSpec): when both screenshots are stored images and their
\* widths or heights differ, visual_diff answers `error: screenshots have
\* different dimensions` with the baseline's and the current's width and
\* height, makes no pixelmatch call, and returns no image item and no PASS
\* or DIFF verdict.
C22_DimensionMismatchFails ==
  [][visualDiffed =>
       LET args == toolResult'.args
           baseline == getScreenshot(args.baseline)[1]
           current == getScreenshot(args.current)[1]
       IN (/\ bothImages(args)
           /\ \/ baseline.width # current.width
              \/ baseline.height # current.height) =>
            /\ onlyText(toolResult',
                  <<"error:", "screenshots have different dimensions",
                    "baseline:", baseline.width, baseline.height,
                    "current:", current.width, current.height>>)
            /\ \A i \in 1..Len(toolResult'.calls) :
                 toolResult'.calls[i] # "pixelmatch"
            /\ ~toolResult'.raised]_vars

\* C22 witness: visual_diff has reported a dimension mismatch for two
\* screenshots with the same number of pixels.
C22_Witness ==
  /\ toolResult.tool = "visual_diff"
  /\ onlyText(toolResult, <<"error:", "screenshots have different dimensions",
                            "baseline:", 11, 10, "current:", 10, 11>>)

\* C23 (VisualSpec): for two stored images of the same width and height,
\* visual_diff reports d differing pixels and the verdict PASS exactly when
\* 100 * d < width * height, DIFF otherwise, whatever the threshold argument
\* (which only enters the count d); so d = 0 is PASS and 100 * d = width *
\* height is DIFF.
C23_PassBelowOnePercent ==
  [][visualDiffed =>
       LET args == toolResult'.args
           baseline == getScreenshot(args.baseline)[1]
           current == getScreenshot(args.current)[1]
           verdict == toolResult'.content[2].text
       IN (/\ bothImages(args)
           /\ baseline.width = current.width
           /\ baseline.height = current.height) =>
            /\ Len(toolResult'.content) = 2
            /\ toolResult'.content[1].type = "image"
            /\ verdict[2] \in 0..(baseline.width * baseline.height)
            /\ verdict[1] =
                 IF 100 * verdict[2] < baseline.width * baseline.height
                   THEN "PASS" ELSE "DIFF"]_vars

\* C23 witness: visual_diff has answered DIFF for one differing pixel out of
\* one hundred.
C23_Witness ==
  /\ toolResult.tool = "visual_diff"
  /\ Len(toolResult.content) = 2
  /\ toolResult.content[1].data = [width |-> 10, height |-> 10, marked |-> 1]
  /\ toolResult.content[2].text = <<"DIFF", 1, "pixels differ">>

\* This step is a dom_diff call, with the arguments toolResult'.args.
domDiffed ==
  /\ toolResult'.tool = "dom_diff"
  /\ stored' = stored
  /\ domDiff(toolResult'.args)

\* The entries a DIFF response shows under a label (none without the block).
shownUnder(response, label) ==
  LET changes == response.content[1].text[4]
      blocks == {i \in 1..Len(changes) : changes[i].label = label}
  IN IF blocks = {} THEN <<>> ELSE changes[CHOOSE i \in blocks : TRUE].shown
\* The trimmed, non-empty lines of a text that are no trimmed line of the
\* other text, in the order of the text.
linesOnlyIn(text, other) ==
  LET lines == split(text)
      others == {trim(split(other)[i]) : i \in 1..Len(split(other))}
      only == {i \in 1..Len(lines) :
                 trim(lines[i]) # <<>> /\ trim(lines[i]) \notin others}
      nth(k) == CHOOSE i \in only : Cardinality({j \in only : j < i}) = k - 1
  IN [k \in 1..Cardinality(only) |-> trim(lines[nth(k)])]

\* C24 (DomStoreSpec): dom_diff of two names under which snapshots with the
\* same HTML text are stored (the same name twice included) answers `PASS:
\* no dom differences detected`, with no change listed.
C24_IdenticalTextPasses ==
  [][domDiffed =>
       LET args == toolResult'.args IN
       (/\ storesOf("dom", args.baseline) # {}
        /\ storesOf("dom", args.current) # {}
        /\ getDomSnapshot(args.baseline) = getDomSnapshot(args.current)) =>
         /\ ~toolResult'.raised
         /\ toolResult'.content =
              <<textItem(<<"PASS", "no dom differences detected">>)>>]_vars

\* C25 (DomStoreSpec): for two stored snapshots with different texts,
\* dom_diff answers DIFF; its added entries are exactly the trimmed,
\* non-empty lines of the current text that are not in the set of trimmed
\* lines of the baseline text, its removed entries the same with the two
\* texts exchanged. So a line of both texts is in neither list wherever it
\* stands, and `<div>a</div>\n<div>b</div>` against
\* `<div>a</div>\n<div>c</div>` gives removed `<div>b</div>` and added
\* `<div>c</div>`.
C25_AddedAndRemovedLines ==
  [][domDiffed =>
       LET args == toolResult'.args
           baseline == getDomSnapshot(args.baseline)
           current == getDomSnapshot(args.current)
       IN (/\ storesOf("dom", args.baseline) # {}
           /\ storesOf("dom", args.current) # {}
           /\ baseline # current) =>
            /\ onlyText(toolResult', <<"DIFF">>)
            /\ shownUnder(toolResult', "added")
                 = linesOnlyIn(current[1], baseline[1])
            /\ shownUnder(toolResult', "removed")
                 = linesOnlyIn(baseline[1], current[1])]_vars

\* C26 (DomStoreSpec): dom_diff answers `error: baseline snapshot <name> not
\* found` exactly when nothing was stored under the baseline name, and
\* `error: current snapshot <name> not found` exactly when the baseline was
\* stored and nothing was stored under the current name; with both stored,
\* whatever the texts (the empty text included), it answers no error.
C26_NotFoundOnlyWhenNotStored ==
  [][domDiffed =>
       LET args == toolResult'.args
           noBaseline == storesOf("dom", args.baseline) = {}
           noCurrent == storesOf("dom", args.current) = {}
       IN /\ onlyText(toolResult', <<"error:", "baseline snapshot",
                                     args.baseline, "not found">>)
               <=> noBaseline
          /\ onlyText(toolResult', <<"error:", "current snapshot",
                                     args.current, "not found">>)
               <=> (~noBaseline /\ noCurrent)
          /\ (~noBaseline /\ ~noCurrent) =>
               ~onlyText(toolResult', <<"error:">>)]_vars

\* This step is the return of a navigate call whose ensureBrowser() rejected.
navigateFailedToCreate ==
  /\ pending # NoCall
  /\ pending' = NoCall
  /\ pending.tool = "navigate"
  /\ eret[1] = Threw

\* C27 (ToolSpec): every tool operation, whatever its arguments and whatever
\* the engine fails at, returns a response with at least one content item
\* and never raises; an operation whose session could not be created or
\* whose pattern could not be compiled answers a text that begins with
\* `error:`.
C27_HandlersNeverRaise ==
  /\ [](toolResult # NoResponse =>
          /\ ~toolResult.raised
          /\ Len(toolResult.content) >= 1)
  /\ [][(navigateFailedToCreate \/ arrayIncludes(toolResult'.calls, "new RegExp"))
          => onlyText(toolResult', <<"error:">>)]_vars

verifyElementAnswered ==
  /\ toolResult'.tool = "verify_element"
  /\ verifyElement(toolResult'.args, TRUE)
\* The show control of the loaded document has been clicked.
showClicked ==
  dom # NoDocument /\ arrayIncludes(dom.clicked, "#show-content")

\* C29 (PageSpec): on the loaded fixture page, verify_element without text
\* or attribute expectation answers, for the element hidden until the show
\* control is clicked, FAIL to state "visible" before the click and PASS
\* after it, and PASS to state "hidden" before the click; for the button
\* visible from the start it answers PASS to state "visible" before any
\* click.
C29_VisibleOnlyAfterTheClick ==
  [][verifyElementAnswered =>
       LET args == toolResult'.args
           verdict == toolResult'.content[1].text[1]
       IN (dom # NoDocument /\ args.text = Absent /\ args.attribute = Absent) =>
            /\ (args.selector = "#dynamic-content" /\ args.state = "visible")
                 => verdict = IF showClicked THEN "PASS" ELSE "FAIL"
            /\ (/\ args.selector = "#dynamic-content"
                /\ args.state = "hidden"
                /\ ~showClicked) => verdict = "PASS"
            /\ (/\ args.selector = "#login-btn"
                /\ args.state = "visible"
                /\ dom.clicked = <<>>) => verdict = "PASS"]_vars

\* C29 witness: after a click of the show control, verify_element has
\* answered PASS to state "visible" for the element that was hidden.
C29_Witness ==
  /\ toolResult.tool = "verify_element"
  /\ toolResult.args.selector = "#dynamic-content"
  /\ toolResult.args.state = "visible"
  /\ toolResult.args.text = Absent /\ toolResult.args.attribute = Absent
  /\ showClicked
  /\ toolResult.content = <<textItem(<<"PASS", "element is visible">>)>>

\* C30 (ConsoleSpec): every entry of the console history has one of the kinds
\* log, debug, info, error, warning, trace, whatever kind the page's
\* console message has.
C30_KindsAreEnumerated ==
  \A i \in 1..Len(consoleLogs) : consoleLogs[i].type \in EntryKinds

\* C31 (Spec): when the body read of a response fails, the listener still
\* completes: the entry it matched gets the response's status (and the
\* fields that travel with it) with no body, it has its duration, and no
\* other entry, neither history and no other waiting listener changes.
C31_FailedBodyReadStillFills ==
  [][\A l \in listeners : \A status \in Statuses : \A len \in BodyLens :
       bodyDone(l, status, TRUE, FALSE, len) =>
         /\ heap'[l.entry].response =
              Some([status |-> status, body |-> Absent, of |-> l.req])
         /\ heap'[l.entry].duration # Absent
         /\ \A e \in DOMAIN heap \ {l.entry} : heap'[e] = heap[e]
         /\ [heap'[l.entry] EXCEPT !.response = heap[l.entry].response]
              = heap[l.entry]
         /\ networkRequests' = networkRequests
         /\ consoleLogs' = consoleLogs
         /\ listeners' = listeners \ {l}]_vars

\* C31 witness: an entry in the history holds a response without a body and
\* a duration, next to an entry that is still without a response.
C31_Witness ==
  \E i, j \in 1..Len(networkRequests) :
    /\ i # j
    /\ heap[networkRequests[i]].response # Absent
    /\ heap[networkRequests[i]].response[1].body = Absent
    /\ heap[networkRequests[i]].duration # Absent
    /\ heap[networkRequests[j]].response = Absent
    /\ listeners = {}

\* C32 (ToolSpec): a list returned by get_network_requests holds at most
\* `limit` entries, for every limit >= 0.
C32_AtMostLimitReported ==
  (/\ toolResult # NoCall
   /\ toolResult.tool = "get_network_requests"
   /\ ~toolResult.raised
   /\ toolResult.content[1].text[1] = "network requests")
    => toolResult.content[1].text[2] <= toolResult.args.limit

\* C33 (DispatchSpec): every response of the dispatch handler has at least
\* one content item and is returned, not raised; a name that is not in the
\* registry, arguments the tool's schema rejects, an exception thrown by the
\* handler (the pattern that does not compile) and a failed browser launch
\* each give exactly one text item that begins with `error:`.
C33_EveryCallAnswered ==
  (toolResult # NoCall /\ toolResult.tool = "tools/call") =>
    LET name == toolResult.args.name
        raw == toolResult.args.arguments
    IN /\ ~toolResult.raised
       /\ Len(toolResult.content) >= 1
       /\ (\/ name \notin registered
           \/ schemaParse(name, raw) = Absent
           \/ /\ name = "get_network_requests"
              /\ raw[1].urlPattern # Absent
              /\ unterminatedGroup(raw[1].urlPattern[1].value)
           \/ /\ name = "navigate"
              /\ pending = NoCall
              /\ eret[1] = Threw)
            => onlyText(toolResult, <<"error:">>)

\* C33 witness: get_network_requests was called through the dispatch
\* handler with valid arguments whose pattern does not compile, on a
\* session holding a request, and the response is the `error:` text.
C33_Witness ==
  /\ toolResult # NoCall
  /\ toolResult.tool = "tools/call"
  /\ toolResult.args.name = "get_network_requests"
  /\ schemaParse("get_network_requests", toolResult.args.arguments) # Absent
  /\ toolResult.args.arguments[1].urlPattern # Absent
  /\ Len(networkRequests) > 0
  /\ onlyText(toolResult, <<"error:">>)

\* History positions whose entry's URL matches the pattern p (a pattern
\* that does not compile matches nothing).
matchingPositions(p) ==
  {i \in 1..Len(networkRequests) :
     ~unterminatedGroup(p) /\ regexTest(p, heap[networkRequests[i]].url)}

\* The verdict the claim gives for pattern p and expected status: FAIL when
\* nothing matches, else by the last matching entry alone.
expectedVerdict(p, expectedStatus) ==
  IF matchingPositions(p) = {} THEN "FAIL"
  ELSE LET i == CHOOSE j \in matchingPositions(p) :
                  \A k \in matchingPositions(p) : k <= j
           e == heap[networkRequests[i]]
       IN IF e.response = Absent THEN "PENDING"
          ELSE IF e.response[1].status = expectedStatus THEN "PASS"
          ELSE "FAIL"

\* C35 (VerifySpec): verify_request_succeeded answers FAIL when no entry's
\* URL matches the pattern, PENDING when the last matching entry has no
\* response, and otherwise PASS or FAIL as that entry's status equals the
\* expected status or not; older matching entries have no influence.
C35_VerdictFromLatestMatch ==
  (toolResult # NoCall /\ toolResult.tool = "verify_request_succeeded") =>
    /\ ~toolResult.raised
    /\ toolResult.content[1].text[1] =
         expectedVerdict(toolResult.args.urlPattern,
                         toolResult.args.expectedStatus)

\* No clear has happened: every entry ever appended is still in the history.
neverCleared == Len(networkRequests) = Len(heap)
\* Every response so far has gone to the entry of its own request.
ownSoFar ==
  /\ \A l \in listeners : l.entry = l.req
  /\ \A e \in DOMAIN heap :
       heap[e].response # Absent => heap[e].response[1].of = e
\* Request r is the earliest request with its URL and method whose response
\* has not arrived yet.
nextInOrder(r) ==
  \A q \in wire :
    (heap[q].url = heap[r].url /\ heap[q].method = heap[r].method) => r <= q

\* C34 (Spec): with no clear, when the responses to requests with the same
\* URL and method arrive in the order the requests were made, each arriving
\* response is matched to the entry of its own request, also while an
\* earlier response's body is still being read.
C34_InOrderResponsesFillOwnEntries ==
  [][(neverCleared /\ ownSoFar) =>
       \A l \in listeners' \ listeners :
         nextInOrder(l.req) => l.entry = l.req]_vars

\* C36 (Spec): in every reachable state, the states with a response listener
\* suspended in its body read included, an entry of the network history has
\* a duration exactly when it has a response.
C36_DurationIffResponse ==
  \A i \in 1..Len(networkRequests) :
    heap[networkRequests[i]].duration # Absent
      <=> heap[networkRequests[i]].response # Absent

\* C37 (Spec): every entry of the history that has a response received it
\* from a response to a request that is itself in the history, that is, to a
\* request observed after the last clear; a response to a request observed
\* before a clear never fills an entry appended after it.
C37_NoResponseAcrossClear ==
  \A i \in 1..Len(networkRequests) :
    heap[networkRequests[i]].response # Absent =>
      positionsOf(heap[networkRequests[i]].response[1].of) # {}

\* C38 (DomStoreSpec): a dom_diff answer with the verdict DIFF reports at
\* least one change: the verdict is PASS whenever the added and removed line
\* lists are both empty.
C38_DiffCountsAChange ==
  (/\ toolResult.tool = "dom_diff"
   /\ ~toolResult.raised
   /\ toolResult.content[1].text[1] = "DIFF")
    => toolResult.content[1].text[2] >= 1

\* This step is a step of close(): its entry or the resumption of one of
\* its three awaits.
closeStep ==
  \/ closeCall
  \/ \E ok \in BOOLEAN :
       closePageDone(ok) \/ closeContextDone(ok) \/ closeBrowserDone(ok)

\* C39 (LifecycleSpec): no step of close() changes the console history, the
\* network history and its entries, the stored screenshots or the stored DOM
\* snapshots; and at any time, a later ensureBrowser() included, the reads
\* return every entry captured and, under each name, the artifact stored
\* last.
C39_CloseKeepsHistoriesAndStores ==
  /\ [](/\ [i \in 1..Len(getConsoleLogs(NoFilter)) |->
              [type |-> getConsoleLogs(NoFilter)[i].type,
               text |-> getConsoleLogs(NoFilter)[i].text]] = emitted
        /\ getNetworkRequests(NoNetworkFilter) = [i \in 1..Len(heap) |-> i]
        /\ \A name \in Names :
             /\ getScreenshot(name) = lastStored("screenshot", name)
             /\ getDomSnapshot(name) = lastStored("dom", name))
  /\ [][closeStep =>
          /\ consoleLogs' = consoleLogs
          /\ networkRequests' = networkRequests
          /\ heap' = heap
          /\ screenshots' = screenshots
          /\ domSnapshots' = domSnapshots]_vars

\* C39 witness: the session was closed and created again (the second
\* browser, with its page, is live, the first is gone), and both histories
\* and both stores hold what was captured.
C39_Witness ==
  /\ browser \notin {NoHandle, 1} /\ browser \in liveBrowsers
  /\ page # NoHandle /\ page \in livePages
  /\ 1 \notin liveBrowsers
  /\ cpc = "idle"
  /\ Len(getConsoleLogs(NoFilter)) > 0
  /\ Len(getNetworkRequests(NoNetworkFilter)) > 0
  /\ getScreenshot("home") # Absent
  /\ getDomSnapshot("home") # Absent

====
